---- MODULE Spec2Model ----
(***************************************************************************)
(* Work-summary aggregation pipeline of redmine-task-helper                *)
(* (backend/app/services/work_summary_service.py, gitlab_service.py,       *)
(* redmine_client.py): generate_summary -> _fetch_logs_node ->             *)
(* _analyze_logs_node (grouping, concurrent chunk / project summaries      *)
(* under an asyncio.Semaphore, reduce, grand summary) -> persisted report. *)
(*                                                                         *)
(* Text is modelled as a sequence of atoms (records [t, a, b, n]); names   *)
(* are strings whose ordering is the ordering of their code points, as in  *)
(* Python; dates are day numbers (ISO dates compare as their day numbers). *)
(***************************************************************************)
EXTENDS Integers, Sequences, FiniteSets, TLC

\* ------------------------------------------------------------------ bounds
MaxDay == 4
StartDate == 2
EndDate == 3
MaxCap == 2
MaxLLMFailures == 1
MaxFaults == 1
MaxCalls == 4
MaxRequests == 5
MaxStartDay == 6
MaxHolidayDay == 7
MaxWorkingDays == 3
MaxPlaceholders == 11
MaxBuckets == 2
MaxReportCalls == 3

\* --------------------------------------------------------------- constants
DefaultConcurrency == 5

\* ------------------------------------------------------------ small helpers
Range(s) == {s[i] : i \in 1..Len(s)}

RECURSIVE SeqOfSet(_)
SeqOfSet(S) == IF S = {} THEN <<>> ELSE LET x == CHOOSE y \in S : TRUE IN <<x>> \o SeqOfSet(S \ {x})

RECURSIVE Flatten(_)
Flatten(ss) == IF ss = <<>> THEN <<>> ELSE Head(ss) \o Flatten(Tail(ss))

\* permutations of a set as sequences (iteration orders of a Python set)
Perms(S) == {s \in [1..Cardinality(S) -> S] : Range(s) = S}

Atom(t, a, b, n) == [t |-> t, a |-> a, b |-> b, n |-> n]

\* ------------------------------------------------- names and their ordering
\* code points of the names used in the model (Python compares str by code point)
CodePoints(s) ==
  CASE s = "" -> <<>>
    [] s = "00_SUMMARY" -> <<48, 48, 95, 83, 85, 77, 77, 65, 82, 89>>
    [] s = "007" -> <<48, 48, 55>>
    [] s = "Alice" -> <<65, 108, 105, 99, 101>>
    [] s = "Bob" -> <<66, 111, 98>>
    [] s = "Carol" -> <<67, 97, 114, 111, 108>>
    [] s = "Unknown" -> <<85, 110, 107, 110, 111, 119, 110>>
    [] s = "Alpha" -> <<65, 108, 112, 104, 97>>
    [] s = "Beta" -> <<66, 101, 116, 97>>
    [] s = "Gamma" -> <<71, 97, 109, 109, 97>>
    [] s = "Code Updates" -> <<67, 111, 100, 101, 32, 85, 112, 100, 97, 116, 101, 115>>
    [] OTHER -> <<127>>

RECURSIVE LexLess(_, _)
LexLess(x, y) ==
  IF y = <<>> THEN FALSE
  ELSE IF x = <<>> THEN TRUE
  ELSE IF Head(x) < Head(y) THEN TRUE
  ELSE IF Head(x) > Head(y) THEN FALSE
  ELSE LexLess(Tail(x), Tail(y))

StrLess(s, t) == LexLess(CodePoints(s), CodePoints(t))

\* Python tuple comparison (p1, u1) < (p2, u2)
KeyLess(k1, k2) == StrLess(k1[1], k2[1]) \/ (k1[1] = k2[1] /\ StrLess(k1[2], k2[2]))

\* ------------------------------------------------------- the outside world
\* Redmine user id -> display name
UserName(uid) == CASE uid = 1 -> "Alice" [] uid = 2 -> "Bob" [] uid = 3 -> "Carol" [] OTHER -> "Unknown"
\* Redmine project id -> name
ProjectName(pid) == CASE pid = 1 -> "Alpha" [] pid = 2 -> "Beta" [] OTHER -> "Gamma"

NoDate == [day |-> 0, time |-> 0]
Stamp(d) == [day |-> d, time |-> 1]       \* "YYYY-MM-DDThh:mm:ss"
DateOnly(d) == [day |-> d, time |-> 0]    \* "YYYY-MM-DD"

\* a journal as stored on the Redmine server; notes is a sequence of atoms
Journal(uid, ts, notes) == [user_id |-> uid, user |-> UserName(uid), created_on |-> ts, notes |-> notes]
Txt(k) == Atom("TXT", "", "", k)
Ref(r) == Atom("REF", r, "", 0)          \* textile image reference !r!

Issue(id, pid, upd, author, assignee, desc, atts, js) ==
  [id |-> id, pid |-> pid, updated_on |-> upd, author |-> author, assigned_to |-> assignee,
   description |-> desc, attachments |-> atts, journals |-> js]

\* content_url of an attachment file name
ContentUrl(f) == CASE f = "a.png" -> "http://redmine/attachments/a.png" [] OTHER -> "http://redmine/attachments/other"

BaseIssue1 ==
  Issue(1, 1, Stamp(3), "Bob", "Alice", <<>>, {},
        << Journal(1, Stamp(2), <<Txt(11)>>), Journal(2, Stamp(3), <<Txt(12)>>) >>)
BaseIssue2 ==
  Issue(2, 2, Stamp(2), "Bob", "Unknown", <<>>, {}, <<>>)

TimeEntry(pid, pname, user, d) == [pid |-> pid, project_name |-> pname, user |-> user, spent_on |-> d]
Commit(author) == [author_name |-> author, id |-> 1]
MergeRequest(author) == [author |-> author, iid |-> 1]

BaseWorld ==
  [ target_project_ids |-> {1, 2}, target_user_ids |-> {1, 2},
    app_settings |-> TRUE, max_concurrent_chunks |-> MaxCap,
    client |-> "stub",
    issues |-> <<BaseIssue1, BaseIssue2>>,
    time_entries |-> <<>>,
    watchlist |-> <<>>, commits |-> <<>>, mrs |-> <<>>,
    failing |-> {}, llm_budget |-> 0 ]

\* journals of issue 1 varied: author id (0 = no user_id key), day, image reference
JournalWorlds ==
  { [BaseWorld EXCEPT !.issues = << [BaseIssue1 EXCEPT !.journals[1] = Journal(uid, ts, <<Txt(11)>> \o refs),
                                                       !.updated_on = upd,
                                                       !.description = desc,
                                                       !.attachments = {"a.png"}],
                                     BaseIssue2 >>,
                     !.target_user_ids = us,
                     !.client = cl]
    : uid \in 0..2, ts \in {Stamp(d) : d \in 1..MaxDay} \cup {DateOnly(StartDate)},
      refs \in {<<>>, <<Ref("x.png")>>, <<Ref("a.png")>>}, upd \in {Stamp(EndDate), Stamp(MaxDay)},
      desc \in {<<>>, <<Ref("x.png")>>},
      us \in {{1}, {1, 2}}, cl \in {"stub", "RedmineService"} }

\* the journal-less issue varied: project, update day, author and assignee
IssueWorlds ==
  { [BaseWorld EXCEPT !.issues = << BaseIssue1,
                                    Issue(2, pid, upd, author, assignee, desc, {}, js) >>]
    : pid \in 1..3, upd \in {NoDate} \cup {Stamp(d) : d \in 1..MaxDay},
      author \in {"Unknown", "Bob"}, assignee \in {"Unknown", "Alice", "Carol"},
      desc \in {<<>>, <<Ref("x.png")>>},
      js \in {<<>>, <<Journal(3, Stamp(StartDate), <<Txt(21)>>)>>} }

\* the owner's settings varied
SettingsWorlds ==
  { [BaseWorld EXCEPT !.target_project_ids = ps, !.target_user_ids = us]
    : ps \in SUBSET {1, 2}, us \in SUBSET {1, 2} }

\* time entries and GitLab activity varied
ActivityWorlds ==
  { [BaseWorld EXCEPT !.time_entries = tes, !.watchlist = wl, !.commits = cs, !.mrs = ms,
                      !.issues = is]
    : tes \in {<<>>, <<TimeEntry(1, "Alpha", "", StartDate)>>, <<TimeEntry(1, "Alpha", "007", StartDate)>>,
               <<TimeEntry(2, "Beta", "Alice", EndDate), TimeEntry(1, "Unknown", "Bob", StartDate)>>},
      wl \in {<<>>, <<"Alpha">>, <<"Gamma">>},
      cs \in {<<>>, <<Commit("Alice")>>},
      ms \in {<<>>, <<MergeRequest("Bob")>>},
      is \in {<<>>, <<BaseIssue1>>} }

\* concurrency limit and LLM failures varied
ConcurrencyWorlds ==
  { [BaseWorld EXCEPT !.app_settings = row, !.max_concurrent_chunks = cap, !.llm_budget = b,
                      !.issues = is, !.time_entries = tes]
    : row \in BOOLEAN, cap \in 0..MaxCap, b \in 0..MaxLLMFailures,
      is \in { <<BaseIssue1, BaseIssue2>>,
               <<[BaseIssue1 EXCEPT !.journals[1].notes = <<Txt(11), Ref("x.png")>>]>> },
      tes \in {<<>>, <<TimeEntry(2, "Beta", "Alice", EndDate)>>} }

\* identifiers of the external calls issued by the fetch stage
FetchCalls ==
  {<<"search_issues", 0>>, <<"get_issue_journals", 1>>, <<"get_issue_journals", 2>>,
   <<"search_time_entries", 1>>, <<"search_time_entries", 2>>,
   <<"get_commits", 0>>, <<"get_merge_requests", 0>>, <<"get_commit_diff_extensions", 0>>,
   <<"get_mr_notes_count", 0>>, <<"get_mr_notes_snippet", 0>>}

\* external calls that raise
FaultWorlds ==
  { [BaseWorld EXCEPT !.failing = f, !.watchlist = <<"Alpha">>, !.commits = cs, !.mrs = ms,
                      !.time_entries = <<TimeEntry(1, "Alpha", "Alice", StartDate)>>]
    : f \in {g \in SUBSET FetchCalls : Cardinality(g) <= MaxFaults},
      cs \in {<<>>, <<Commit("Alice")>>}, ms \in {<<>>, <<MergeRequest("Bob")>>} }

\* five buckets in one project, competing for the permits
FanOutWorlds ==
  { [BaseWorld EXCEPT !.max_concurrent_chunks = cap, !.issues = <<>>,
                      !.time_entries = [k \in 1..5 |->
                         TimeEntry(1, "Alpha", <<"Alice", "Bob", "Carol", "007", "">>[k], StartDate)]]
    : cap \in 1..MaxCap }

Worlds == FanOutWorlds \cup FaultWorlds \cup JournalWorlds \cup IssueWorlds \cup SettingsWorlds \cup ActivityWorlds \cup ConcurrencyWorlds

\* ------------------------------------------------------------------- state
VARIABLES
  world,            \* settings, Redmine / GitLab content, failing endpoints (fixed during a run)
  stage,            \* position of generate_summary
  state,            \* AgentState handed from fetch_logs to analyze_logs
  grouped_data,     \* (project, user) -> [redmine, gitlab] line lists
  group_order,      \* insertion order of the (project, user) keys
  img_placeholder_map, \* sequence of URLs; entry n+1 is the URL of IMG_PLACEHOLDER_n
  issue_images_data,   \* (project, user) -> sequence of [issue, placeholders]
  ordered_chunks,   \* sequence of [p, u, pc, call, res]: the gathered tasks
  semaphore,        \* [value, waiters]
  llm_failures,     \* LLM calls that raised so far
  analyze_pc,       \* position inside _analyze_logs_node: "group" | "gather" | "grand" | "end"
  grand,            \* outcome of the grand-summary call: "none" | "ok" | "failed"
  report,           \* the AIWorkSummaryReport returned by generate_summary
  calls_made,       \* kinds of external systems contacted so far
  ph_calls,         \* get_img_placeholder calls so far, as [url, key] records
  extraction,       \* one call of extract_images_from_issue: [issue, redmine_url, pc, images]
  timer_sessions,   \* TimerSession rows; the id of a row is its index
  timer_spans,      \* TimerSpan rows
  clock,            \* datetime.utcnow(), in ticks; one tick per request
  timer_response,   \* the last response of the timer router: [op, code, target, body]
  redmine_calls,    \* RedmineService.create_time_entry calls so far: [session, issue_id, hours, api, raised, value]
  workday,          \* one call of calculate_due_date: [cal, start_date, working_days, pc, due]
  restore,          \* one run of the restore loop of analyze_chunk: [map, text, downloaded, pc, final_res]
  gather,           \* one asyncio.gather and the assembly after it: [tasks, llm, results, finished, pc, body]
  debug_dump,       \* AppSettings.enable_ai_debug_dump and the files in logs/ai_error_dumps: [enabled, files]
  reports_db        \* AIWorkSummaryReport rows and the last service call on them: [rows, calls, last]

\* the variables outside the summary pipeline
timer_vars == <<timer_sessions, timer_spans, clock, timer_response, redmine_calls>>
more_vars == <<gather, debug_dump, reports_db>>
idle_vars == <<ph_calls, extraction, timer_vars, workday, restore, gather, reports_db>>
aux_vars == <<idle_vars, debug_dump>>

vars == <<world, stage, state, grouped_data, group_order, img_placeholder_map, issue_images_data,
          ordered_chunks, semaphore, llm_failures, analyze_pc, grand, report, calls_made, aux_vars>>

NoState == [issues |-> <<>>, time_entries |-> <<>>, gitlab_commits |-> <<>>, gitlab_mrs |-> <<>>,
            gitlab_instances |-> 0, gitlab_project_map |-> <<>>]
NoReport == [title |-> "", saved |-> FALSE, body |-> <<>>]
NoKeys == {}

\* no run of generate_summary has started
IdlePipeline ==
  /\ stage = "IDLE"
  /\ state = NoState
  /\ grouped_data = [k \in NoKeys |-> 0]
  /\ group_order = <<>>
  /\ img_placeholder_map = <<>>
  /\ issue_images_data = [k \in NoKeys |-> 0]
  /\ ordered_chunks = <<>>
  /\ semaphore = [value |-> 0, waiters |-> <<>>]
  /\ llm_failures = 0
  /\ analyze_pc = "group"
  /\ grand = "none"
  /\ report = NoReport
  /\ calls_made = {}

NoExtraction == [issue |-> [id |-> 0, description |-> <<>>, notes |-> <<>>, attachments |-> {}],
                 redmine_url |-> "", pc |-> "none", images |-> <<>>]

NoResponse == [op |-> "none", code |-> 0, target |-> 0, body |-> <<>>]

\* the timer tables are empty and no request was made
IdleTimer ==
  /\ timer_sessions = <<>>
  /\ timer_spans = <<>>
  /\ clock = 0
  /\ timer_response = NoResponse
  /\ redmine_calls = <<>>

Calendar(holidays, sat, sun) == [holidays |-> holidays, exclude_saturday |-> sat, exclude_sunday |-> sun]
NoWorkday == [cal |-> Calendar({}, TRUE, TRUE), start_date |-> 0, working_days |-> 0, pc |-> "none", due |-> 0]
NoRestore == [map |-> <<>>, text |-> <<>>, downloaded |-> {}, pc |-> "none", final_res |-> <<>>]
NoGather == [tasks |-> <<>>, llm |-> <<>>, results |-> <<>>, finished |-> <<>>, pc |-> "none", body |-> <<>>]

NoDump == [enabled |-> FALSE, files |-> {}]

NoCall == [op |-> "none", user |-> 0, id |-> 0, found |-> FALSE]
NoReports == [rows |-> <<>>, calls |-> 0, last |-> NoCall]

IdleMore ==
  /\ gather = NoGather
  /\ debug_dump = NoDump
  /\ reports_db = NoReports

IdleAux ==
  /\ ph_calls = <<>>
  /\ extraction = NoExtraction
  /\ IdleTimer
  /\ workday = NoWorkday
  /\ restore = NoRestore
  /\ IdleMore

\* a run starts with the error-dump setting on or off and no dump file
Init ==
  /\ world \in Worlds
  /\ IdlePipeline
  /\ ph_calls = <<>>
  /\ extraction = NoExtraction
  /\ IdleTimer
  /\ workday = NoWorkday
  /\ restore = NoRestore
  /\ gather = NoGather
  /\ reports_db = NoReports
  /\ \E enabled \in BOOLEAN : debug_dump = [enabled |-> enabled, files |-> {}]

analysis_vars == <<grouped_data, group_order, img_placeholder_map, issue_images_data,
                   ordered_chunks, semaphore, llm_failures, analyze_pc, grand>>

\* --------------------------------------------------------- generate_summary
\* entry of generate_summary: the fail-fast branch or the start of the workflow
\* variant: both sets must be empty
NoTargets_Both(project_ids, user_ids) == project_ids = {} /\ user_ids = {}

\* if not project_ids or not user_ids
NoTargets(project_ids, user_ids) == project_ids = {} \/ user_ids = {}

generate_summary ==
  /\ stage = "IDLE"
  /\ IF NoTargets(world.target_project_ids, world.target_user_ids)
       THEN /\ stage' = "ERROR"
            /\ report' = [title |-> "Error", saved |-> FALSE,
                          body |-> <<Atom("ERROR_BODY", "", "", 0)>>]
       ELSE /\ stage' = "FETCHING"
            /\ report' = report
  /\ UNCHANGED <<aux_vars, world, state, analysis_vars, calls_made>>

\* --------------------------------------------------------- _fetch_logs_node
\* "YYYY-MM-DD" part of a timestamp: s.split('T')[0]
DayOf(ts) == ts.day

\* RedmineService.get_issue_journals: journals with non-blank notes, as dicts
\* with the keys id, notes, created_on, user (there is no user_id key: 0)
GetIssueJournals(js) ==
  LET kept == SelectSeq(js, LAMBDA j : j.notes # <<>>)
  IN [k \in 1..Len(kept) |-> [user_id |-> 0, user |-> kept[k].user,
                              created_on |-> Stamp(kept[k].created_on.day), notes |-> kept[k].notes]]

\* what self.redmine.get_issue_journals returns to the node
ClientJournals(client, issue) ==
  IF client = "RedmineService" THEN GetIssueJournals(issue.journals) ELSE issue.journals

\* variant: the filter without the user check
PassesFilter_AnyUser(j, users_set, start_date, end_date) ==
  start_date <= DayOf(j.created_on) /\ DayOf(j.created_on) <= end_date

\* the journal filter: strict user id match and day within [start_date, end_date]
PassesFilter(j, users_set, start_date, end_date) ==
  /\ j.user_id # 0 /\ j.user_id \in users_set
  /\ start_date <= DayOf(j.created_on) /\ DayOf(j.created_on) <= end_date

\* img_re.findall over a text: the image references, in order
FindImages(text) ==
  LET refs == SelectSeq(text, LAMBDA a : a.t = "REF")
  IN [k \in 1..Len(refs) |-> refs[k].a]

resolve_url(url_or_filename, attachment_map) ==
  IF url_or_filename \in attachment_map THEN ContentUrl(url_or_filename) ELSE url_or_filename

AllRefs == {"x.png", "a.png"}
UrlUniverse == AllRefs \cup {ContentUrl(r) : r \in AllRefs}

\* first loop of the node: is the issue kept (target project, not updated after end_date)
IncludeIssue(issue, projects_set, end_date) ==
  /\ issue.pid \in projects_set
  /\ ~(issue.updated_on # NoDate /\ DayOf(issue.updated_on) > end_date)

\* one structured issue, after the journal filter and the image scan; ord is
\* the iteration order of the de-duplicating set
StructuredIssue(issue, journals, users_set, start_date, end_date, ord) ==
  LET filtered == SelectSeq(journals, LAMBDA j : PassesFilter(j, users_set, start_date, end_date))
      desc_imgs == FindImages(issue.description)
      note_imgs == Flatten([k \in 1..Len(filtered) |-> FindImages(filtered[k].notes)])
      found == {resolve_url(r, issue.attachments) : r \in Range(desc_imgs) \cup Range(note_imgs)}
  IN [id |-> issue.id, project_name |-> ProjectName(issue.pid), updated_on |-> issue.updated_on,
      journals |-> filtered, images |-> SelectSeq(ord, LAMBDA u : u \in found),
      author_name |-> issue.author, assigned_to_name |-> issue.assigned_to]

FetchIssues(w, ord) ==
  LET found == IF <<"search_issues", 0>> \in w.failing THEN <<>> ELSE w.issues
      kept == SelectSeq(found, LAMBDA i : IncludeIssue(i, w.target_project_ids, EndDate))
  IN [k \in 1..Len(kept) |->
        StructuredIssue(kept[k],
                        IF <<"get_issue_journals", kept[k].id>> \in w.failing
                          THEN <<>> ELSE ClientJournals(w.client, kept[k]),
                        w.target_user_ids, StartDate, EndDate, ord)]

\* time entries of one target project (an exception gives no entries)
FetchTimeEntries(w, pid) ==
  IF pid \notin w.target_project_ids \/ <<"search_time_entries", pid>> \in w.failing THEN <<>>
  ELSE LET es == SelectSeq(w.time_entries, LAMBDA e : e.pid = pid)
       IN [k \in 1..Len(es) |-> [date |-> es[k].spent_on, user |-> es[k].user,
                                 project_name |-> es[k].project_name]]

\* commits and merge requests of the watch-listed project: one try block, so a
\* failing get_commits also skips get_merge_requests
FetchCommits(w) ==
  IF w.watchlist = <<>> \/ <<"get_commits", 0>> \in w.failing THEN <<>>
  ELSE [k \in 1..Len(w.commits) |-> [author_name |-> w.commits[k].author_name, project_id |-> 1]]

FetchMergeRequests(w) ==
  IF w.watchlist = <<>> \/ <<"get_commits", 0>> \in w.failing
     \/ <<"get_merge_requests", 0>> \in w.failing THEN <<>>
  ELSE [k \in 1..Len(w.mrs) |->
          [author |-> w.mrs[k].author, project_id |-> 1,
           notes_summary |-> <<"get_mr_notes_snippet", 0>> \notin w.failing]]

\* asyncio.gather over get_mr_notes_count (which does not catch) re-raises
FetchRaises(w) ==
  FetchMergeRequests(w) # <<>> /\ <<"get_mr_notes_count", 0>> \in w.failing

fetch_logs_node ==
  /\ stage = "FETCHING"
  /\ calls_made' = calls_made \cup {"redmine"} \cup (IF world.watchlist # <<>> THEN {"gitlab"} ELSE {})
  /\ IF FetchRaises(world)
       THEN /\ stage' = "RAISED"
            /\ state' = state
       ELSE /\ stage' = "ANALYZING"
            /\ \E ord \in Perms(UrlUniverse) :
                 state' = [issues |-> FetchIssues(world, ord),
                           time_entries |-> FetchTimeEntries(world, 1) \o FetchTimeEntries(world, 2),
                           gitlab_commits |-> FetchCommits(world),
                           gitlab_mrs |-> FetchMergeRequests(world),
                           gitlab_instances |-> IF world.watchlist = <<>> THEN 0 ELSE 1,
                           gitlab_project_map |-> world.watchlist]
  /\ UNCHANGED <<aux_vars, world, analysis_vars, report>>

\* ------------------------------------------------ _analyze_logs_node: grouping
\* the accumulator of the grouping loops
NoGroups == [grouped |-> [k \in NoKeys |-> 0], order |-> <<>>, map |-> <<>>,
             images |-> [k \in NoKeys |-> 0]]

Line(kind, issue, day, note) == [kind |-> kind, issue |-> issue, day |-> day, note |-> note]
Placeholder(n) == Atom("PH", "", "", n)      \* the token IMG_PLACEHOLDER_<n>

add_to_group(G, project_name, user_name, line, source) ==
  LET k == <<project_name, user_name>>
      has == k \in DOMAIN G.grouped
      cur == IF has THEN G.grouped[k] ELSE [redmine |-> <<>>, gitlab |-> <<>>]
      new == IF source = "redmine" THEN [cur EXCEPT !.redmine = Append(@, line)]
                                   ELSE [cur EXCEPT !.gitlab = Append(@, line)]
  IN [G EXCEPT !.grouped = [x \in (DOMAIN G.grouped) \cup {k} |-> IF x = k THEN new ELSE G.grouped[x]],
               !.order = IF has THEN @ ELSE Append(@, k)]

\* variant: every call issues a new key
get_img_placeholder_Fresh(map, url) == [map |-> Append(map, url), n |-> Len(map)]

\* get_img_placeholder: the key of url, issuing the next key when url is new
get_img_placeholder(map, url) ==
  IF \E i \in 1..Len(map) : map[i] = url
    THEN [map |-> map, n |-> (CHOOSE i \in 1..Len(map) : map[i] = url /\ \A h \in 1..(i - 1) : map[h] # url) - 1]
    ELSE [map |-> Append(map, url), n |-> Len(map)]

\* the inner loop over i['images'] of one journal: replace each image URL that
\* occurs in the note by its placeholder
RECURSIVE ReplaceImages(_, _, _)
ReplaceImages(map, note, images) ==
  IF images = <<>> THEN [map |-> map, note |-> note]
  ELSE LET url == Head(images)
       IN IF \E i \in 1..Len(note) : note[i].t = "REF" /\ note[i].a = url
            THEN LET r == get_img_placeholder(map, url)
                 IN ReplaceImages(r.map,
                                  [i \in 1..Len(note) |->
                                     IF note[i].t = "REF" /\ note[i].a = url THEN Placeholder(r.n) ELSE note[i]],
                                  Tail(images))
            ELSE ReplaceImages(map, note, Tail(images))

RECURSIVE PlaceholdersOf(_, _)
PlaceholdersOf(map, urls) ==
  IF urls = <<>> THEN [map |-> map, phs |-> <<>>]
  ELSE LET r == get_img_placeholder(map, Head(urls))
           rest == PlaceholdersOf(r.map, Tail(urls))
       IN [map |-> rest.map, phs |-> <<r.n>> \o rest.phs]

register_issue_images(G, project_name, user_name, issue_id, image_urls) ==
  IF image_urls = <<>> THEN G
  ELSE LET key == <<project_name, user_name>>
           cur == IF key \in DOMAIN G.images THEN G.images[key] ELSE <<>>
       IN IF \E i \in 1..Len(cur) : cur[i].issue = issue_id
            THEN [G EXCEPT !.images = [x \in (DOMAIN G.images) \cup {key} |-> IF x = key THEN cur ELSE G.images[x]]]
            ELSE LET r == PlaceholdersOf(G.map, image_urls)
                     new == Append(cur, [issue |-> issue_id, placeholders |-> r.phs])
                 IN [G EXCEPT !.map = r.map,
                              !.images = [x \in (DOMAIN G.images) \cup {key} |-> IF x = key THEN new ELSE G.images[x]]]

\* variant: the author preferred over the assignee
FallbackUser_AuthorFirst(i) ==
  IF i.author_name = "Unknown" THEN i.assigned_to_name ELSE i.author_name

\* Preference: Assignee > Author > Unknown
FallbackUser(i) ==
  IF i.assigned_to_name = "Unknown" THEN i.author_name ELSE i.assigned_to_name

\* the loop over the (filtered) journals of one issue
RECURSIVE ProcessJournals(_, _, _)
ProcessJournals(G, i, js) ==
  IF js = <<>> THEN G
  ELSE LET j == Head(js)
           r == ReplaceImages(G.map, j.notes, i.images)
           line == Line("journal", i.id, DayOf(j.created_on), r.note)
           G1 == add_to_group([G EXCEPT !.map = r.map], i.project_name, j.user, line, "redmine")
           G2 == register_issue_images(G1, i.project_name, j.user, i.id, i.images)
       IN ProcessJournals(G2, i, Tail(js))

\* does the issue get the synthetic "(Issue Updated)" line
NeedsUpdateLine(i, start_date, end_date) ==
  /\ i.journals = <<>>
  /\ i.updated_on # NoDate
  /\ start_date <= DayOf(i.updated_on) /\ DayOf(i.updated_on) <= end_date

ProcessIssue(G, i, start_date, end_date) ==
  LET G1 == ProcessJournals(G, i, i.journals)
  IN IF NeedsUpdateLine(i, start_date, end_date)
       THEN LET u_name == FallbackUser(i)
                line == Line("updated", i.id, DayOf(i.updated_on), <<>>)
                G2 == add_to_group(G1, i.project_name, u_name, line, "redmine")
            IN register_issue_images(G2, i.project_name, u_name, i.id, i.images)
       ELSE G1

RECURSIVE ProcessIssues(_, _, _, _)
ProcessIssues(G, is, start_date, end_date) ==
  IF is = <<>> THEN G
  ELSE ProcessIssues(ProcessIssue(G, Head(is), start_date, end_date), Tail(is), start_date, end_date)

RECURSIVE ProcessTimeEntries(_, _)
ProcessTimeEntries(G, tes) ==
  IF tes = <<>> THEN G
  ELSE LET te == Head(tes)
       IN ProcessTimeEntries(add_to_group(G, te.project_name, te.user, Line("time", 0, te.date, <<>>), "redmine"),
                             Tail(tes))

\* gitlab_project_map.get(pid, "Code Updates")
GitlabProjectName(project_map, pid) ==
  IF pid \in 1..Len(project_map) THEN project_map[pid] ELSE "Code Updates"

RECURSIVE ProcessCommits(_, _, _)
ProcessCommits(G, cs, project_map) ==
  IF cs = <<>> THEN G
  ELSE LET c == Head(cs)
       IN ProcessCommits(add_to_group(G, GitlabProjectName(project_map, c.project_id), c.author_name,
                                      Line("commit", 0, 0, <<>>), "gitlab"),
                         Tail(cs), project_map)

RECURSIVE ProcessMergeRequests(_, _, _)
ProcessMergeRequests(G, ms, project_map) ==
  IF ms = <<>> THEN G
  ELSE LET mr == Head(ms)
       IN ProcessMergeRequests(add_to_group(G, GitlabProjectName(project_map, mr.project_id), mr.author,
                                            Line(IF mr.notes_summary THEN "mr_notes" ELSE "mr", 0, 0, <<>>), "gitlab"),
                               Tail(ms), project_map)

\* step 1 of the node: the whole synchronous grouping
GroupData(st, start_date, end_date) ==
  LET G1 == ProcessIssues(NoGroups, st.issues, start_date, end_date)
      G2 == ProcessTimeEntries(G1, st.time_entries)
      G3 == ProcessCommits(G2, st.gitlab_commits, st.gitlab_project_map)
  IN ProcessMergeRequests(G3, st.gitlab_mrs, st.gitlab_project_map)

\* ------------------------------------- _analyze_logs_node: the gathered tasks
SummaryKey == "00_SUMMARY"

\* concurrency_limit = app_settings.max_concurrent_chunks if app_settings else 5
ConcurrencyLimit(w) == IF w.app_settings THEN w.max_concurrent_chunks ELSE DefaultConcurrency

\* projects in insertion order of grouped_data
RECURSIVE ProjectsOf(_, _)
ProjectsOf(order, seen) ==
  IF order = <<>> THEN <<>>
  ELSE IF Head(order)[1] \in seen THEN ProjectsOf(Tail(order), seen)
  ELSE <<Head(order)[1]>> \o ProjectsOf(Tail(order), seen \cup {Head(order)[1]})

Task(p, u, pc) == [p |-> p, u |-> u, pc |-> pc, res |-> <<>>, raised |-> {}]

\* ordered_chunks before any task has run: per project its summary task
\* (sort key 00_SUMMARY) followed by one chunk task per user
BuildTasks(order) ==
  LET ps == ProjectsOf(order, {})
  IN Flatten([k \in 1..Len(ps) |->
       LET us == SelectSeq(order, LAMBDA key : key[1] = ps[k])
       IN <<Task(ps[k], SummaryKey, "new")>> \o [h \in 1..Len(us) |-> Task(ps[k], us[h][2], "new")]])

\* is task t a project-summary task (created by generate_project_summary_task)
IsSummaryTask(tasks, i) == i \in 1..Len(tasks) /\ tasks[i].u = SummaryKey
                           /\ \A h \in 1..(i - 1) : tasks[h].p # tasks[i].p

\* the first LLM call of a chunk
FirstCall(bucket) == IF bucket.redmine # <<>> THEN "redmine" ELSE "gitlab"

\* does task i go through the semaphore (restricted_analyze_chunk)
UsesSemaphore(tasks, i) == ~IsSummaryTask(tasks, i)

\* variant: chunk tasks start their call without waiting for a permit
RECURSIVE StartTasks_NoWait(_, _, _, _)
StartTasks_NoWait(tasks, i, sem, grouped) ==
  IF i > Len(tasks) THEN [tasks |-> tasks, sem |-> sem]
  ELSE IF ~UsesSemaphore(tasks, i)
    THEN StartTasks_NoWait([tasks EXCEPT ![i].pc = "llm"], i + 1, sem, grouped)
  ELSE StartTasks_NoWait([tasks EXCEPT ![i].pc = FirstCall(grouped[<<tasks[i].p, tasks[i].u>>])], i + 1,
                         [sem EXCEPT !.value = @ - 1], grouped)

\* asyncio.gather: every task runs, in order, up to its first suspension
RECURSIVE StartTasks(_, _, _, _)
StartTasks(tasks, i, sem, grouped) ==
  IF i > Len(tasks) THEN [tasks |-> tasks, sem |-> sem]
  ELSE IF ~UsesSemaphore(tasks, i)
    THEN StartTasks([tasks EXCEPT ![i].pc = "llm"], i + 1, sem, grouped)
  ELSE IF sem.value > 0 /\ sem.waiters = <<>>
    THEN StartTasks([tasks EXCEPT ![i].pc = FirstCall(grouped[<<tasks[i].p, tasks[i].u>>])], i + 1,
                    [sem EXCEPT !.value = @ - 1], grouped)
  ELSE StartTasks([tasks EXCEPT ![i].pc = "waiting"], i + 1,
                  [sem EXCEPT !.waiters = Append(@, i)], grouped)

\* tasks whose LLM call is in flight
InFlight(tasks) == {i \in 1..Len(tasks) : tasks[i].pc \in {"llm", "redmine", "gitlab"}}

\* grouping, semaphore creation and the start of the gathered tasks
analyze_begin ==
  /\ stage = "ANALYZING" /\ analyze_pc = "group"
  /\ LET G == GroupData(state, StartDate, EndDate)
         started == StartTasks(BuildTasks(G.order), 1,
                               [value |-> ConcurrencyLimit(world), waiters |-> <<>>], G.grouped)
     IN /\ grouped_data' = G.grouped
        /\ group_order' = G.order
        /\ img_placeholder_map' = G.map
        /\ issue_images_data' = G.images
        /\ ordered_chunks' = started.tasks
        /\ semaphore' = started.sem
  /\ analyze_pc' = "gather"
  /\ calls_made' = calls_made \cup (IF InFlight(ordered_chunks') # {} THEN {"llm"} ELSE {})
  /\ UNCHANGED <<aux_vars, world, stage, state, llm_failures, grand, report>>

\* variant: a woken task registers one more image before its call
semaphore_acquire_Register ==
  /\ stage = "ANALYZING" /\ analyze_pc = "gather"
  /\ semaphore.waiters # <<>> /\ semaphore.value > 0
  /\ LET i == Head(semaphore.waiters)
     IN /\ ordered_chunks' = [ordered_chunks EXCEPT
                                ![i].pc = FirstCall(grouped_data[<<ordered_chunks[i].p, ordered_chunks[i].u>>])]
        /\ semaphore' = [value |-> semaphore.value - 1, waiters |-> Tail(semaphore.waiters)]
  /\ UNCHANGED <<aux_vars, world, stage, state, grouped_data, group_order, issue_images_data,
                 llm_failures, grand, report, calls_made, analyze_pc>>
  /\ img_placeholder_map' = Append(img_placeholder_map, Head(img_placeholder_map \o <<"">>))

\* a task woken by release() takes its permit and issues its first LLM call
semaphore_acquire ==
  /\ stage = "ANALYZING" /\ analyze_pc = "gather"
  /\ semaphore.waiters # <<>> /\ semaphore.value > 0
  /\ LET i == Head(semaphore.waiters)
     IN /\ ordered_chunks' = [ordered_chunks EXCEPT
                                ![i].pc = FirstCall(grouped_data[<<ordered_chunks[i].p, ordered_chunks[i].u>>])]
        /\ semaphore' = [value |-> semaphore.value - 1, waiters |-> Tail(semaphore.waiters)]
  /\ UNCHANGED <<aux_vars, world, stage, state, grouped_data, group_order, img_placeholder_map, issue_images_data,
                 llm_failures, grand, report, calls_made, analyze_pc>>

\* --------------------------------------------------- LLM calls and their text
\* placeholder numbers occurring in a list of bucket lines (the prompt's Logs)
PromptPlaceholders(lines) ==
  {a.n : a \in {x \in UNION {Range(lines[k].note) : k \in 1..Len(lines)} : x.t = "PH"}}

\* what openai.chat_completion may do on a prompt mentioning the placeholders
\* phs: return a text echoing any of them, or raise
LLMOutcomes(phs, may_fail) ==
  {[ok |-> TRUE, echo |-> e] : e \in SUBSET phs}
    \cup (IF may_fail THEN {[ok |-> FALSE, echo |-> {}]} ELSE {})

EchoText(e) == LET q == SeqOfSet(e) IN [k \in 1..Len(q) |-> Placeholder(q[k])]

\* variant: a raised call leaves no trace in the section
ChunkCallResult_Silent(p, u, source, out) ==
  IF out.ok THEN <<Atom("LLM", p, u, IF source = "redmine" THEN 1 ELSE 2)>> \o EchoText(out.echo)
  ELSE <<>>

\* redmine_result / gitlab_result of analyze_chunk
ChunkCallResult(p, u, source, out) ==
  IF out.ok THEN <<Atom("LLM", p, u, IF source = "redmine" THEN 1 ELSE 2)>> \o EchoText(out.echo)
  ELSE <<Atom("ERR", IF source = "redmine" THEN "Redmine AI Error" ELSE "GitLab AI Error", "", 0)>>

\* return value of generate_project_summary_task
SummaryResult(p, out) ==
  IF out.ok THEN <<Atom("LLM_SUMMARY", p, "", 0)>> \o EchoText(out.echo)
  ELSE <<Atom("SUMMARY_ERR", p, "", 0)>>     \* "### p - Summary\n(Error generating summary: e)"

\* the "#### Attachments" block of a chunk: registered images, de-duplicated by URL
AttachmentsBlock(entries, map) ==
  LET flat == Flatten([k \in 1..Len(entries) |->
                 [h \in 1..Len(entries[k].placeholders) |->
                    [issue |-> entries[k].issue, n |-> entries[k].placeholders[h]]]])
      keep == {i \in 1..Len(flat) : /\ flat[i].n + 1 \in 1..Len(map)
                                    /\ \A h \in 1..(i - 1) : map[flat[h].n + 1] # map[flat[i].n + 1]}
  IN IF entries = <<>> THEN <<>>
     ELSE <<Atom("ATTACHMENTS", "", "", 0)>> \o
          Flatten([i \in 1..Len(flat) |->
                     IF i \in keep THEN <<Atom("CAPTION", "", "", flat[i].issue), Placeholder(flat[i].n)>>
                     ELSE <<>>])

\* decimal digits: is the numeral of k a proper prefix of the numeral of n
Pow10(m) == IF m = 1 THEN 10 ELSE 100
IsNumeralPrefix(k, n) == k >= 1 /\ \E m \in 1..2 : n >= Pow10(m) /\ n \div Pow10(m) = k
NumeralRest(k, n) == LET m == CHOOSE m \in 1..2 : n >= Pow10(m) /\ n \div Pow10(m) = k IN n % Pow10(m)

\* final_res.replace(ph, x) for ph = IMG_PLACEHOLDER_<k>: str.replace acts on
\* every occurrence of the characters of ph, also inside a longer numeral
StrReplace(text, k, x) ==
  Flatten([i \in 1..Len(text) |->
     IF text[i].t = "PH" /\ text[i].n = k THEN <<x>>
     ELSE IF text[i].t = "PH" /\ IsNumeralPrefix(k, text[i].n)
       THEN <<x, Atom("DIGITS", "", "", NumeralRest(k, text[i].n))>>
     ELSE <<text[i]>>])

\* the restore loop of analyze_chunk over img_placeholder_map.items(); downloaded
\* is the set of URLs whose download_file call returns data
RECURSIVE RestorePlaceholders(_, _, _, _)
RestorePlaceholders(text, map, k, downloaded) ==
  IF k >= Len(map) THEN text
  ELSE LET url == map[k + 1]
           x == IF url \in downloaded THEN Atom("LOCAL", url, "", 0) ELSE Atom("URL", url, "", 0)
       IN RestorePlaceholders(StrReplace(text, k, x), map, k + 1, downloaded)

\* MERGE, ATTACHMENTS HANDLING and restore of analyze_chunk
FinishChunk(p, u, results, entries, map, downloaded) ==
  RestorePlaceholders(<<Atom("H3", p, u, 0)>> \o results \o AttachmentsBlock(entries, map),
                      map, 0, downloaded)

\* the LLM call of a chunk task returns or raises; after the last call of the
\* chunk the section is assembled and the permit released
chunk_llm_return(i) ==
  /\ stage = "ANALYZING" /\ analyze_pc = "gather"
  /\ i \in 1..Len(ordered_chunks) /\ ordered_chunks[i].pc \in {"redmine", "gitlab"}
  /\ LET t == ordered_chunks[i]
         key == <<t.p, t.u>>
         bucket == grouped_data[key]
         lines == IF t.pc = "redmine" THEN bucket.redmine ELSE bucket.gitlab
     IN \E out \in LLMOutcomes(PromptPlaceholders(lines), llm_failures < world.llm_budget) :
          LET results == t.res \o ChunkCallResult(t.p, t.u, t.pc, out)
              raised == IF out.ok THEN t.raised ELSE t.raised \cup {t.pc}
          IN /\ llm_failures' = IF out.ok THEN llm_failures ELSE llm_failures + 1
             /\ IF t.pc = "redmine" /\ bucket.gitlab # <<>>
                  THEN /\ ordered_chunks' = [ordered_chunks EXCEPT ![i].pc = "gitlab", ![i].res = results,
                                                                    ![i].raised = raised]
                       /\ semaphore' = semaphore
                  ELSE \E downloaded \in SUBSET Range(img_placeholder_map) :
                       /\ ordered_chunks' = [ordered_chunks EXCEPT
                            ![i].pc = "done", ![i].raised = raised,
                            ![i].res = FinishChunk(t.p, t.u, results,
                                                   IF key \in DOMAIN issue_images_data
                                                     THEN issue_images_data[key] ELSE <<>>,
                                                   img_placeholder_map, downloaded)]
                       /\ semaphore' = [semaphore EXCEPT !.value = @ + 1]
  /\ UNCHANGED <<aux_vars, world, stage, state, grouped_data, group_order, img_placeholder_map, issue_images_data,
                 analyze_pc, grand, report, calls_made>>

\* all lines of one project, over all its users
ProjectLines(grouped, order, p) ==
  LET us == SelectSeq(order, LAMBDA key : key[1] = p)
  IN Flatten([k \in 1..Len(us) |-> grouped[us[k]].redmine])

\* the LLM call of a project-summary task returns or raises
summary_llm_return(i) ==
  /\ stage = "ANALYZING" /\ analyze_pc = "gather"
  /\ i \in 1..Len(ordered_chunks) /\ ordered_chunks[i].pc = "llm"
  /\ LET t == ordered_chunks[i]
     IN \E out \in LLMOutcomes(PromptPlaceholders(ProjectLines(grouped_data, group_order, t.p)),
                               llm_failures < world.llm_budget) :
          /\ llm_failures' = IF out.ok THEN llm_failures ELSE llm_failures + 1
          /\ ordered_chunks' = [ordered_chunks EXCEPT ![i].pc = "done", ![i].res = SummaryResult(t.p, out),
                                                       ![i].raised = IF out.ok THEN {} ELSE {"llm"}]
  /\ UNCHANGED <<aux_vars, world, stage, state, grouped_data, group_order, img_placeholder_map, issue_images_data,
                 semaphore, analyze_pc, grand, report, calls_made>>

\* ------------------------------------------------- _analyze_logs_node: reduce
sort_key(item) == <<item.p, item.u>>

\* list.sort(key=sort_key): a stable sort
RECURSIVE InsertItem(_, _)
InsertItem(sorted, x) ==
  IF sorted = <<>> THEN <<x>>
  ELSE IF KeyLess(sort_key(x), sort_key(Head(sorted))) THEN <<x>> \o sorted
  ELSE <<Head(sorted)>> \o InsertItem(Tail(sorted), x)

RECURSIVE SortItems(_)
SortItems(items) ==
  IF items = <<>> THEN <<>>
  ELSE InsertItem(SortItems(SubSeq(items, 1, Len(items) - 1)), items[Len(items)])

\* combined_chunk_text: the non-empty results in sorted order
CombinedChunkText(tasks) ==
  LET final_items == SortItems(tasks)
      chunk_summaries == SelectSeq(final_items, LAMBDA it : it.res # <<>>)
  IN IF chunk_summaries = <<>> THEN <<Atom("NO_LOGS", "", "", 0)>>
     ELSE Flatten([k \in 1..Len(chunk_summaries) |-> chunk_summaries[k].res])

\* the block placed between the header and the sections
GrandSummary(ok) ==
  IF ok THEN <<Atom("GRAND", "", "", 0)>> ELSE <<Atom("GRAND_FALLBACK", "", "", 0)>>

\* the GitLab Pulse appendix
MetricsAppendix(st) ==
  IF st.gitlab_instances > 0 THEN <<Atom("GITLAB_PULSE", "", "", st.gitlab_instances)>> ELSE <<>>

\* variant: a failed grand summary drops the sections
FinalReport_Drop(tasks, ok, st) ==
  IF ok THEN <<Atom("H1", "", "", 0)>> \o GrandSummary(ok) \o CombinedChunkText(tasks) \o MetricsAppendix(st)
  ELSE <<Atom("H1", "", "", 0)>> \o GrandSummary(ok)

FinalReport(tasks, ok, st) ==
  <<Atom("H1", "", "", 0)>> \o GrandSummary(ok) \o CombinedChunkText(tasks) \o MetricsAppendix(st)

\* asyncio.gather has returned: the node sorts, builds the reduce prompt and
\* issues the grand-summary call
gather_done ==
  /\ stage = "ANALYZING" /\ analyze_pc = "gather"
  /\ \A i \in 1..Len(ordered_chunks) : ordered_chunks[i].pc = "done"
  /\ analyze_pc' = "grand"
  /\ calls_made' = calls_made \cup {"llm"}
  /\ UNCHANGED <<aux_vars, world, stage, state, grouped_data, group_order, img_placeholder_map, issue_images_data,
                 ordered_chunks, semaphore, llm_failures, grand, report>>

\* error_dump_to_txt: with the setting on, write the file error_<ts>_<p>_<u>.txt;
\* written tells whether makedirs / open / write went through, and a failure
\* there is caught and printed
error_dump_to_txt(dump, p_name, u_name, written) ==
  IF dump.enabled /\ written
  THEN [dump EXCEPT !.files = @ \cup {[p |-> p_name, u |-> u_name]}]
  ELSE dump

\* variant: the node loops back to fetch_logs instead of reaching END
grand_return_Resume ==
  /\ stage = "ANALYZING" /\ analyze_pc = "grand"
  /\ grand' = "ok"
  /\ analyze_pc' = "group"
  /\ stage' = "FETCHING"
  /\ UNCHANGED <<aux_vars, world, state, grouped_data, group_order, img_placeholder_map, issue_images_data,
                 ordered_chunks, semaphore, calls_made, llm_failures, report>>

\* the grand-summary call returns or raises; the node returns and
\* generate_summary persists the report
grand_return ==
  /\ stage = "ANALYZING" /\ analyze_pc = "grand"
  /\ \E out \in LLMOutcomes({}, llm_failures < world.llm_budget) :
       /\ grand' = IF out.ok THEN "ok" ELSE "failed"
       /\ llm_failures' = IF out.ok THEN llm_failures ELSE llm_failures + 1
       /\ report' = [title |-> "WorkSummary", saved |-> TRUE,
                     body |-> FinalReport(ordered_chunks, out.ok, state)]
       /\ IF out.ok THEN debug_dump' = debug_dump
          ELSE \E written \in BOOLEAN : debug_dump' = error_dump_to_txt(debug_dump, "ALL", "ALL", written)
  /\ analyze_pc' = "end"
  /\ stage' = "DONE"
  /\ UNCHANGED <<idle_vars, world, state, grouped_data, group_order, img_placeholder_map, issue_images_data,
                 ordered_chunks, semaphore, calls_made>>

\* ---------------------------------------------------------------- behaviour
Next ==
  \/ generate_summary
  \/ fetch_logs_node
  \/ analyze_begin
  \/ semaphore_acquire
  \/ \E i \in 1..Len(ordered_chunks) : chunk_llm_return(i)
  \/ \E i \in 1..Len(ordered_chunks) : summary_llm_return(i)
  \/ gather_done
  \/ grand_return

Spec == Init /\ [][Next]_vars

\* ------------------------------------------- get_img_placeholder on its own
\* the closure is called with any URL, any number of times in any order
PlaceholderInit ==
  /\ world = BaseWorld
  /\ IdlePipeline
  /\ IdleAux

call_get_img_placeholder ==
  /\ Len(ph_calls) < MaxCalls
  /\ \E url \in UrlUniverse :
       LET r == get_img_placeholder(img_placeholder_map, url)
       IN /\ img_placeholder_map' = r.map
          /\ ph_calls' = Append(ph_calls, [url |-> url, key |-> r.n])
  /\ UNCHANGED <<world, stage, state, grouped_data, group_order, issue_images_data, ordered_chunks,
                 semaphore, llm_failures, analyze_pc, grand, report, calls_made, extraction, timer_vars, workday, restore, more_vars>>

PlaceholderNext == call_get_img_placeholder

PlaceholderSpec == PlaceholderInit /\ [][PlaceholderNext]_vars

\* ------------------------------- extract_images_from_issue (okr_copilot.py)
\* A reference token is the string scheme ++ slashes * "/" ++ stem ++ mid ++ ".png";
\* cut marks a capture that ended inside the token, after "(1".
Token(scheme, slashes, stem, mid) ==
  [scheme |-> scheme, slashes |-> slashes, stem |-> stem, mid |-> mid, cut |-> FALSE]

\* the references of a text: Markdown ![caption](url "title"), HTML <img src="url">,
\* Textile !{align}{style}token(caption)!
MdRef(caption, tok, title) == [t |-> "MD", caption |-> caption, tok |-> tok, title |-> title]
HtmlRef(tok) == [t |-> "HTML", tok |-> tok]
TextileRef(align, style, tok, caption) ==
  [t |-> "TEXTILE", align |-> align, style |-> style, tok |-> tok, caption |-> caption]

RelativeTokens ==
  {Token("", n, stem, mid) : n \in 0..2, stem \in {"a", "x"}, mid \in {"", " ", "(1)"}}
AbsoluteTokens == {Token(sch, 0, "x", "") : sch \in {"http://", "https://"}}
Tokens == RelativeTokens \cup AbsoluteTokens

ImageRefs ==
  {MdRef(c, tok, title) : c \in {"", "c"}, tok \in Tokens, title \in BOOLEAN}
    \cup {HtmlRef(tok) : tok \in Tokens}
    \cup {TextileRef(al, st, tok, c) : al \in {"", ">"}, st \in {"", "{width:50%}"}, tok \in Tokens,
                                       c \in {"", "c"}}

\* file names of the attachments of the issue under test
AttachmentNames == {Token("", 0, "a", mid) : mid \in {"", " ", "(1)"}}
\* content_url of an attachment
AttachmentUrl(tok) == [content_url_of |-> tok]

\* url.startswith(('http://', 'https://'))
StartsWithHttp(tok) == tok.scheme \in {"http://", "https://"}

\* url.lstrip('/')
LStripSlash(tok) == [tok EXCEPT !.slashes = 0]

\* f"{redmine_url}/{clean_url}"
JoinUrl(redmine_url, clean_url) == [base |-> redmine_url, path |-> clean_url]

\* md_pattern on one reference: the captured <<url, caption>> pairs.  The url
\* group [^\s\)]+ ends at the first blank or ")" and must be followed by an
\* optional quoted title and ")"
MdMatches(ref) ==
  IF ref.t = "MD"
    THEN IF ref.tok.mid = " " THEN <<>>
         ELSE IF ref.tok.mid = "(1)" THEN << [url |-> [ref.tok EXCEPT !.cut = TRUE], caption |-> ref.caption] >>
         ELSE << [url |-> ref.tok, caption |-> ref.caption] >>
  ELSE IF ref.t = "HTML" THEN << [url |-> ref.tok, caption |-> ""] >>
  ELSE <<>>

\* textile_pattern on one reference: the <<align, filename, caption>> triples.
\* The filename group [^!\(\)\n]+ ends at "(", which must open a caption
\* that is directly followed by the closing "!"
TextileMatches(ref) ==
  IF ref.t = "TEXTILE" /\ ref.tok.mid # "(1)"
    THEN << [align |-> ref.align, filename |-> ref.tok, caption |-> ref.caption] >>
    ELSE <<>>

\* URL resolution of a Markdown / HTML match
ResolveMarkdownUrl(url, attachments_map, redmine_url) ==
  IF StartsWithHttp(url) THEN url
  ELSE IF url \in attachments_map THEN AttachmentUrl(url)
  ELSE IF redmine_url # "" THEN JoinUrl(redmine_url, LStripSlash(url))
  ELSE url

\* the url of a Textile match, or nothing
ResolveTextileUrl(filename, attachments_map) ==
  IF filename \in attachments_map THEN <<AttachmentUrl(filename)>>
  ELSE IF StartsWithHttp(filename) THEN <<filename>>
  ELSE <<>>

Image(url, caption, issue_id) == [url |-> url, caption |-> caption, issue_id |-> issue_id]

\* extract_images_from_text on a text holding the references refs
extract_images_from_text(refs, source_type, issue_id, attachments_map, redmine_url) ==
  LET md == Flatten([k \in 1..Len(refs) |-> MdMatches(refs[k])])
      tx == Flatten([k \in 1..Len(refs) |-> TextileMatches(refs[k])])
  IN [k \in 1..Len(md) |->
        Image(ResolveMarkdownUrl(md[k].url, attachments_map, redmine_url),
              IF md[k].caption # "" THEN md[k].caption ELSE <<"Issue #", issue_id, source_type>>,
              issue_id)]
     \o Flatten([k \in 1..Len(tx) |->
           LET u == ResolveTextileUrl(tx[k].filename, attachments_map)
           IN IF u = <<>> THEN <<>>
              ELSE << Image(u[1],
                            IF tx[k].caption # "" THEN tx[k].caption
                            ELSE <<"Issue #", issue_id, tx[k].filename>>,
                            issue_id) >>])

extract_images_from_issue(issue, redmine_url) ==
  IF issue.id = 0 THEN <<>>
  ELSE extract_images_from_text(issue.description, "Description", issue.id, issue.attachments, redmine_url)
       \o extract_images_from_text(issue.notes, "Note", issue.id, issue.attachments, redmine_url)

\* the issues handed to the extractor: one reference in the description, and
\* possibly a Textile reference in the notes
ExtractionInit ==
  /\ world = BaseWorld
  /\ IdlePipeline
  /\ ph_calls = <<>>
  /\ IdleTimer
  /\ workday = NoWorkday
  /\ restore = NoRestore
  /\ IdleMore
  /\ \E ref \in ImageRefs, atts \in {{}, AttachmentNames}, base \in {"", "https://my-redmine.com"},
        notes \in {<<>>, <<TextileRef("", "", Token("", 0, "a", ""), "")>>} :
        extraction = [issue |-> [id |-> 1, description |-> <<ref>>, notes |-> notes, attachments |-> atts],
                      redmine_url |-> base, pc |-> "call", images |-> <<>>]

call_extract_images_from_issue ==
  /\ extraction.pc = "call"
  /\ extraction' = [extraction EXCEPT
                      !.pc = "returned",
                      !.images = extract_images_from_issue(extraction.issue, extraction.redmine_url)]
  /\ UNCHANGED <<world, stage, state, analysis_vars, report, calls_made, ph_calls, timer_vars, workday, restore, more_vars>>

ExtractionNext == call_extract_images_from_issue

ExtractionSpec == ExtractionInit /\ [][ExtractionNext]_vars

\* ------------------------------------------------ timer router (timer.py)
\* None is the empty sequence (or the empty set, for a column)
None == <<>>
TimerIssues == {1, 2}
Comments == {{}, {""}, {"Done"}}

TimerSession(issue_id, now) ==
  [redmine_issue_id |-> issue_id, start_time |-> now, end_time |-> {}, total_duration |-> 0,
   status |-> "running", content |-> {}, is_synced |-> FALSE, synced_at |-> {}]
TimerSpan(session_id, now) == [session_id |-> session_id, start_time |-> now, end_time |-> {}]

\* the rows a select can return first: all matching rows when the query has
\* no ORDER BY, the rows with the latest start_time under start_time.desc()
WithStatus(sessions, statuses) == {i \in 1..Len(sessions) : sessions[i].status \in statuses}
LatestFirst(sessions, ids) == {i \in ids : \A j \in ids : sessions[j].start_time <= sessions[i].start_time}
OpenSpans(spans, sid) == {k \in 1..Len(spans) : spans[k].session_id = sid /\ spans[k].end_time = {}}

calculate_duration(s, current_span, now) ==
  IF s.status = "running" /\ current_span # None
  THEN s.total_duration + (now - current_span[1].start_time)
  ELSE s.total_duration

CurrentBody(sessions, i, current_span, now) ==
  <<[id |-> i, issue_id |-> sessions[i].redmine_issue_id, start_time |-> sessions[i].start_time,
     duration |-> calculate_duration(sessions[i], current_span, now), status |-> sessions[i].status,
     is_running |-> sessions[i].status = "running", content |-> sessions[i].content]>>

\* the bodies GET /timer/current can return
get_current_timer(sessions, spans, now) ==
  LET found == LatestFirst(sessions, WithStatus(sessions, {"running", "paused"}))
  IN IF found = {} THEN {None}
     ELSE UNION {IF sessions[i].status = "running" /\ OpenSpans(spans, i) # {}
                 THEN {CurrentBody(sessions, i, <<spans[k]>>, now) : k \in OpenSpans(spans, i)}
                 ELSE {CurrentBody(sessions, i, None, now)} : i \in found}

\* closing the open span of a session and adding its length to the session
CloseSpan(sessions, spans, i, k, now) ==
  [sessions |-> [sessions EXCEPT ![i].total_duration = @ + (now - spans[k].start_time)],
   spans |-> [spans EXCEPT ![k].end_time = {now}]]
CloseFirstSpan_Keep(sessions, spans, i, now) ==
  {[sessions |-> sessions, spans |-> spans]}

CloseFirstSpan(sessions, spans, i, now) ==
  IF OpenSpans(spans, i) = {} THEN {[sessions |-> sessions, spans |-> spans]}
  ELSE {CloseSpan(sessions, spans, i, k, now) : k \in OpenSpans(spans, i)}

Respond(op, code, target, sessions, spans, now) ==
  /\ timer_sessions' = sessions
  /\ timer_spans' = spans
  /\ clock' = now + 1
  /\ \E body \in get_current_timer(sessions, spans, now) :
       timer_response' = [op |-> op, code |-> code, target |-> target, body |-> body]
  /\ UNCHANGED redmine_calls

TimerFrame ==
  UNCHANGED <<world, stage, state, analysis_vars, report, calls_made, ph_calls, extraction, workday, restore, more_vars>>

current_timer ==
  /\ clock < MaxRequests
  /\ Respond("current", 200, 0, timer_sessions, timer_spans, clock)
  /\ TimerFrame

\* step 2 of start_timer onwards: resume the latest paused session of the
\* issue or create one, open a span, answer with get_current_timer
StartTarget(issue_id, sessions, spans, now) ==
  LET paused == LatestFirst(sessions, {i \in WithStatus(sessions, {"paused"}) :
                                         sessions[i].redmine_issue_id = issue_id})
  IN IF paused = {}
     THEN Respond("start", 200, Len(sessions) + 1, Append(sessions, TimerSession(issue_id, now)),
                  Append(spans, TimerSpan(Len(sessions) + 1, now)), now)
     ELSE \E t \in paused :
            Respond("start", 200, t, [sessions EXCEPT ![t].status = "running"],
                    Append(spans, TimerSpan(t, now)), now)

start_timer ==
  /\ clock < MaxRequests
  /\ \E issue_id \in {0} \cup TimerIssues :
       IF issue_id = 0
       THEN /\ timer_response' = [op |-> "start", code |-> 400, target |-> 0, body |-> None]
            /\ clock' = clock + 1
            /\ UNCHANGED <<timer_sessions, timer_spans, redmine_calls>>
       ELSE LET running == WithStatus(timer_sessions, {"running"})
            IN IF running = {}
               THEN StartTarget(issue_id, timer_sessions, timer_spans, clock)
               ELSE \E a \in running :
                      IF timer_sessions[a].redmine_issue_id = issue_id
                      THEN Respond("start", 200, a, timer_sessions, timer_spans, clock)
                      ELSE \E c \in CloseFirstSpan(timer_sessions, timer_spans, a, clock) :
                             StartTarget(issue_id, [c.sessions EXCEPT ![a].status = "paused"],
                                         c.spans, clock)
  /\ TimerFrame

pause_timer ==
  /\ clock < MaxRequests
  /\ LET running == WithStatus(timer_sessions, {"running"})
     IN IF running = {}
        THEN /\ timer_response' = [op |-> "pause", code |-> 404, target |-> 0, body |-> None]
             /\ clock' = clock + 1
             /\ UNCHANGED <<timer_sessions, timer_spans, redmine_calls>>
        ELSE \E a \in running :
               \E c \in CloseFirstSpan(timer_sessions, timer_spans, a, clock) :
                 Respond("pause", 200, a, [c.sessions EXCEPT ![a].status = "paused"], c.spans, clock)
  /\ TimerFrame

stop_timer ==
  /\ clock < MaxRequests
  /\ \E comment \in Comments :
       LET active == WithStatus(timer_sessions, {"running", "paused"})
       IN IF active = {}
          THEN /\ timer_response' = [op |-> "stop", code |-> 200, target |-> 0,
                                     body |-> <<[status |-> "no_active_timer"]>>]
               /\ clock' = clock + 1
               /\ UNCHANGED <<timer_sessions, timer_spans, redmine_calls>>
          ELSE \E t \in active :
                 \E c \in (IF timer_sessions[t].status = "running"
                           THEN CloseFirstSpan(timer_sessions, timer_spans, t, clock)
                           ELSE {[sessions |-> timer_sessions, spans |-> timer_spans]}) :
                   Respond("stop", 200, t,
                           [c.sessions EXCEPT ![t].status = "stopped", ![t].end_time = {clock},
                                              ![t].content = IF comment \in {{}, {""}} THEN @ ELSE comment],
                           c.spans, clock)
  /\ TimerFrame

\* RedmineService.create_time_entry: the python-redmine call either creates
\* the entry or raises; the method returns what the call returns
create_time_entry(api) ==
  IF api = "fails" THEN [raised |-> TRUE, value |-> "exception"]
  ELSE [raised |-> FALSE, value |-> "entry"]

\* round(total_duration / 3600.0, 2) with the floor of 0.1, in hundredths of
\* an hour (durations here stay below the first rounding tie)
Hours(total_duration) ==
  LET h == (total_duration * 100 + 1800) \div 3600
  IN IF h < 10 THEN 10 ELSE h

\* the row POST /timer/submit works on: the row of session_id when one is
\* given, else the stopped unsynced session with the latest end_time
SubmitTarget(sessions, session_id) ==
  IF session_id # 0
  THEN {i \in 1..Len(sessions) : i = session_id}
  ELSE LET cand == {i \in WithStatus(sessions, {"stopped"}) : ~sessions[i].is_synced}
       IN {i \in cand : \A j \in cand : \A e \in sessions[j].end_time : \E f \in sessions[i].end_time : e <= f}

submit_time_entry ==
  /\ clock < MaxRequests
  /\ clock' = clock + 1
  /\ UNCHANGED timer_spans
  /\ \E session_id \in 0..(Len(timer_sessions) + 1), activity \in {"found", "none"}, api \in {"created", "fails"} :
       LET found == SubmitTarget(timer_sessions, session_id)
       IN IF found = {}
          THEN /\ timer_response' = [op |-> "submit", code |-> 404, target |-> 0, body |-> None]
               /\ UNCHANGED <<timer_sessions, redmine_calls>>
          ELSE \E t \in found :
                 IF activity = "none"
                 THEN /\ timer_response' = [op |-> "submit", code |-> 400, target |-> t, body |-> None]
                      /\ UNCHANGED <<timer_sessions, redmine_calls>>
                 ELSE LET r == create_time_entry(api)
                          hours == Hours(timer_sessions[t].total_duration)
                      IN /\ redmine_calls' = Append(redmine_calls,
                                [session |-> t, issue_id |-> timer_sessions[t].redmine_issue_id,
                                 hours |-> hours, api |-> api, raised |-> r.raised, value |-> r.value])
                         /\ IF r.raised
                            THEN /\ timer_response' = [op |-> "submit", code |-> 500, target |-> t, body |-> None]
                                 /\ UNCHANGED timer_sessions
                            ELSE /\ timer_sessions' = [timer_sessions EXCEPT ![t].is_synced = TRUE,
                                                                              ![t].synced_at = {clock}]
                                 /\ timer_response' =
                                      [op |-> "submit", code |-> 200, target |-> t,
                                       body |-> <<[status |-> "submitted", hours |-> hours,
                                                   issue_id |-> timer_sessions[t].redmine_issue_id]>>]
  /\ TimerFrame

TimerInit ==
  /\ world = BaseWorld
  /\ IdlePipeline
  /\ IdleAux

TimerNext ==
  \/ current_timer
  \/ start_timer
  \/ pause_timer
  \/ stop_timer
  \/ submit_time_entry

TimerSpec == TimerInit /\ [][TimerNext]_vars

\* --------------------------------- WorkdayCalculator (workday_calculator.py)
\* dates are day numbers; day 0 is a Monday, and a Holiday row holds the
\* "%Y-%m-%d" text of its day
weekday(d) == d % 7

is_working_day(cal, check_date) ==
  IF cal.exclude_saturday /\ weekday(check_date) = 5 THEN FALSE
  ELSE IF cal.exclude_sunday /\ weekday(check_date) = 6 THEN FALSE
  ELSE IF check_date \in cal.holidays THEN FALSE
  ELSE TRUE

\* the while loop of calculate_due_date
RECURSIVE DueLoop(_, _, _, _)
DueLoop(cal, current_date, days_counted, working_days) ==
  IF days_counted < working_days
  THEN DueLoop(cal, current_date + 1,
               IF is_working_day(cal, current_date + 1) THEN days_counted + 1 ELSE days_counted,
               working_days)
  ELSE current_date

calculate_due_date_SkipStart(cal, start_date, working_days) ==
  IF working_days <= 0 THEN start_date
  ELSE DueLoop(cal, start_date, 0, working_days)

calculate_due_date(cal, start_date, working_days) ==
  IF working_days <= 0 THEN start_date
  ELSE DueLoop(cal, start_date, IF is_working_day(cal, start_date) THEN 1 ELSE 0, working_days)

\* the while loop of get_working_days_between
RECURSIVE BetweenLoop(_, _, _, _)
BetweenLoop(cal, current_date, end_date, working_days) ==
  IF current_date <= end_date
  THEN BetweenLoop(cal, current_date + 1, end_date,
                   IF is_working_day(cal, current_date) THEN working_days + 1 ELSE working_days)
  ELSE working_days

get_working_days_between(cal, start_date, end_date) ==
  IF end_date < start_date THEN 0
  ELSE BetweenLoop(cal, start_date, end_date, 0)

\* a calculator over any holiday table and weekend setting, asked for the due
\* date of any start date and number of working days
WorkdayInit ==
  /\ world = BaseWorld
  /\ IdlePipeline
  /\ ph_calls = <<>>
  /\ extraction = NoExtraction
  /\ IdleTimer
  /\ restore = NoRestore
  /\ IdleMore
  /\ \E holidays \in SUBSET (0..MaxHolidayDay), sat \in BOOLEAN, sun \in BOOLEAN,
        start_date \in 0..MaxStartDay, working_days \in (0 - 1)..MaxWorkingDays :
        workday = [cal |-> Calendar(holidays, sat, sun), start_date |-> start_date,
                   working_days |-> working_days, pc |-> "call", due |-> 0]

call_calculate_due_date ==
  /\ workday.pc = "call"
  /\ workday' = [workday EXCEPT
                   !.pc = "returned",
                   !.due = calculate_due_date(workday.cal, workday.start_date, workday.working_days)]
  /\ UNCHANGED <<world, stage, state, analysis_vars, report, calls_made, ph_calls, extraction, timer_vars, restore, more_vars>>

WorkdayNext == call_calculate_due_date

WorkdaySpec == WorkdayInit /\ [][WorkdayNext]_vars

\* --------------------------- the restore loop of analyze_chunk on its own
\* the URL registered under IMG_PLACEHOLDER_<n>
UrlOfKey(n) == Atom("U", "", "", n)

\* a run that issued any number of placeholders; the section text holds one
\* or two of them around a word, and any of the downloads may fail
RestoreInit ==
  /\ world = BaseWorld
  /\ IdlePipeline
  /\ ph_calls = <<>>
  /\ extraction = NoExtraction
  /\ IdleTimer
  /\ workday = NoWorkday
  /\ IdleMore
  /\ \E count \in 1..MaxPlaceholders :
       \E a \in 0..(count - 1), b \in 0..(count - 1) :
         \E text \in {<<Placeholder(a)>>, <<Placeholder(a), Atom("TXT", "w", "", 0), Placeholder(b)>>} :
           \E downloaded \in SUBSET {UrlOfKey(k) : k \in {n \in 0..(count - 1) :
                                       n \in {a, b} \/ IsNumeralPrefix(n, a) \/ IsNumeralPrefix(n, b)}} :
             restore = [map |-> [k \in 1..count |-> UrlOfKey(k - 1)], text |-> text,
                        downloaded |-> downloaded, pc |-> "call", final_res |-> <<>>]

call_restore ==
  /\ restore.pc = "call"
  /\ restore' = [restore EXCEPT
                   !.pc = "returned",
                   !.final_res = RestorePlaceholders(restore.text, restore.map, 0, restore.downloaded)]
  /\ UNCHANGED <<world, stage, state, analysis_vars, report, calls_made, ph_calls, extraction, timer_vars,
                 workday, more_vars>>

RestoreNext == call_restore

RestoreSpec == RestoreInit /\ [][RestoreNext]_vars

\* ------------------------------ asyncio.gather and the assembly on their own
\* the (project, user) keys grouping can produce, in any insertion order
GatherKeys == {<<"Alpha", "Alice">>, <<"Alpha", "Bob">>, <<"Beta", "Alice">>, <<"Beta", "Carol">>}
KeyOrders == {o \in UNION {[1..n -> GatherKeys] : n \in 1..MaxBuckets} :
                \A i, j \in 1..Len(o) : i # j => o[i] # o[j]}

\* what the coroutine of task i returns: the text of its LLM call, or nothing
TaskReturn(tasks, i, answered) ==
  IF answered THEN <<Atom("LLM", tasks[i].p, tasks[i].u, i)>> ELSE <<>>

Pending == <<Atom("PENDING", "", "", 0)>>

\* the tasks of one run and, per task, whether its LLM call yields text
GatherInit ==
  /\ world = BaseWorld
  /\ IdlePipeline
  /\ ph_calls = <<>>
  /\ extraction = NoExtraction
  /\ IdleTimer
  /\ workday = NoWorkday
  /\ restore = NoRestore
  /\ debug_dump = NoDump
  /\ reports_db = NoReports
  /\ \E order \in KeyOrders :
       LET tasks == BuildTasks(order)
       IN \E llm \in [1..Len(tasks) -> BOOLEAN] :
            gather = [tasks |-> tasks, llm |-> llm, results |-> [i \in 1..Len(tasks) |-> Pending],
                      finished |-> <<>>, pc |-> "gather", body |-> <<>>]

GatherFrame ==
  UNCHANGED <<world, stage, state, analysis_vars, report, calls_made, ph_calls, extraction, timer_vars,
              workday, restore, debug_dump, reports_db>>

\* variant: results are collected in the order of completion
task_returns_AsCompleted(i) ==
  /\ gather.pc = "gather"
  /\ i \in 1..Len(gather.tasks) /\ \A k \in 1..Len(gather.finished) : gather.finished[k] # i
  /\ gather' = [gather EXCEPT !.finished = Append(@, i),
                              !.results[Len(gather.finished) + 1] = TaskReturn(gather.tasks, i, gather.llm[i])]
  /\ GatherFrame

\* a task completes, in any order; gather puts its return value at the
\* position of its awaitable
task_returns(i) ==
  /\ gather.pc = "gather"
  /\ i \in 1..Len(gather.tasks) /\ \A k \in 1..Len(gather.finished) : gather.finished[k] # i
  /\ gather' = [gather EXCEPT !.finished = Append(@, i),
                              !.results[i] = TaskReturn(gather.tasks, i, gather.llm[i])]
  /\ GatherFrame

\* gather has returned: zip the results back, sort, concatenate
assemble ==
  /\ gather.pc = "gather"
  /\ Len(gather.finished) = Len(gather.tasks)
  /\ gather' = [gather EXCEPT
                  !.pc = "assembled",
                  !.body = CombinedChunkText([i \in 1..Len(gather.tasks) |->
                                                [gather.tasks[i] EXCEPT !.res = gather.results[i]]])]
  /\ GatherFrame

GatherNext ==
  \/ \E i \in 1..Len(gather.tasks) : task_returns(i)
  \/ assemble

GatherSpec == GatherInit /\ [][GatherNext]_vars

\* ------------------------------- report access (work_summary_service.py)
ReportUsers == {1, 2}
ReportIds == 1..3

\* a stored report; deleted rows stay in the sequence with exists = FALSE
ReportRow(owner_id) ==
  [owner_id |-> owner_id, title |-> "title", summary_markdown |-> "generated",
   conversation_history |-> <<>>, exists |-> TRUE]

\* variant: the row is looked up by id alone
get_report_AnyOwner(rows, user, report_id) ==
  {k \in 1..Len(rows) : k = report_id /\ rows[k].exists}

\* get_report: the rows with this id that belong to the calling user
get_report(rows, user, report_id) ==
  {k \in 1..Len(rows) : k = report_id /\ rows[k].exists /\ rows[k].owner_id = user}

\* two stored reports with any owners; id 3 is not in the table
ReportInit ==
  /\ world = BaseWorld
  /\ IdlePipeline
  /\ ph_calls = <<>>
  /\ extraction = NoExtraction
  /\ IdleTimer
  /\ workday = NoWorkday
  /\ restore = NoRestore
  /\ gather = NoGather
  /\ debug_dump = NoDump
  /\ \E o1 \in ReportUsers, o2 \in ReportUsers :
       reports_db = [rows |-> <<ReportRow(o1), ReportRow(o2)>>, calls |-> 0, last |-> NoCall]

ReportFrame ==
  UNCHANGED <<world, stage, state, analysis_vars, report, calls_made, ph_calls, extraction, timer_vars,
              workday, restore, gather, debug_dump>>

Answer(op, user, report_id, found, rows) ==
  reports_db' = [rows |-> rows, calls |-> reports_db.calls + 1,
                 last |-> [op |-> op, user |-> user, id |-> report_id, found |-> found]]

call_get_report ==
  /\ reports_db.calls < MaxReportCalls
  /\ \E user \in ReportUsers, report_id \in ReportIds :
       Answer("get", user, report_id, get_report(reports_db.rows, user, report_id) # {}, reports_db.rows)
  /\ ReportFrame

update_report_content ==
  /\ reports_db.calls < MaxReportCalls
  /\ \E user \in ReportUsers, report_id \in ReportIds, content \in {{}, {"edited"}}, title \in {{}, {"renamed"}} :
       LET found == get_report(reports_db.rows, user, report_id)
       IN IF found = {} THEN Answer("update", user, report_id, FALSE, reports_db.rows)
          ELSE \E k \in found :
                 Answer("update", user, report_id, TRUE,
                        [reports_db.rows EXCEPT
                           ![k].summary_markdown = IF content = {} THEN @ ELSE CHOOSE c \in content : TRUE,
                           ![k].title = IF title = {} THEN @ ELSE CHOOSE t \in title : TRUE])
  /\ ReportFrame

delete_report ==
  /\ reports_db.calls < MaxReportCalls
  /\ \E user \in ReportUsers, report_id \in ReportIds :
       LET found == get_report(reports_db.rows, user, report_id)
       IN IF found = {} THEN Answer("delete", user, report_id, FALSE, reports_db.rows)
          ELSE \E k \in found :
                 Answer("delete", user, report_id, TRUE, [reports_db.rows EXCEPT ![k].exists = FALSE])
  /\ ReportFrame

\* chat_with_report raises "Report not found" without a row; a raising LLM
\* call leaves the row as it was
chat_with_report ==
  /\ reports_db.calls < MaxReportCalls
  /\ \E user \in ReportUsers, report_id \in ReportIds, action \in {"chat", "refine"}, llm_ok \in BOOLEAN :
       LET found == get_report(reports_db.rows, user, report_id)
       IN IF found = {} THEN Answer("chat", user, report_id, FALSE, reports_db.rows)
          ELSE IF ~llm_ok THEN Answer("chat", user, report_id, TRUE, reports_db.rows)
          ELSE \E k \in found :
                 Answer("chat", user, report_id, TRUE,
                        [reports_db.rows EXCEPT
                           ![k].conversation_history = @ \o <<[role |-> "user", by |-> user],
                                                               [role |-> "assistant", by |-> user]>>,
                           ![k].summary_markdown = IF action = "refine" THEN "refined" ELSE @])
  /\ ReportFrame

ReportNext ==
  \/ call_get_report
  \/ update_report_content
  \/ delete_report
  \/ chat_with_report

ReportSpec == ReportInit /\ [][ReportNext]_vars

\* =================================================================== claims
Grouped == analyze_pc # "group"
Buckets == DOMAIN grouped_data
TextOf(note) == SelectSeq(note, LAMBDA a : a.t = "TXT")

\* the lines of kind k, as <<bucket key, position>> pairs
LinesOfKind(k) ==
  {kp \in UNION {{<<key, n>> : n \in 1..Len(grouped_data[key].redmine)} : key \in Buckets} :
     grouped_data[kp[1]].redmine[kp[2]].kind = k}

\* C1: after grouping, every journal-derived line of every bucket comes from a
\* journal of that issue whose author id is a target user and whose creation
\* day lies in [start_date, end_date]
C1_JournalLinesPassFilter ==
  Grouped =>
    \A kp \in LinesOfKind("journal") :
      LET l == grouped_data[kp[1]].redmine[kp[2]]
      IN \E iss \in Range(world.issues) :
           /\ iss.id = l.issue /\ ProjectName(iss.pid) = kp[1][1]
           /\ \E j \in Range(iss.journals) :
                /\ j.user = kp[1][2] /\ TextOf(j.notes) = TextOf(l.note) /\ j.created_on.day = l.day
                /\ j.user_id \in world.target_user_ids
                /\ StartDate <= j.created_on.day /\ j.created_on.day <= EndDate

\* a bucket holds a journal line although the same issue also has a journal
\* that must be left out
C1_Witness ==
  /\ Grouped
  /\ \E kp \in LinesOfKind("journal") :
       \E iss \in Range(world.issues) :
         /\ iss.id = grouped_data[kp[1]].redmine[kp[2]].issue
         /\ \E j \in Range(iss.journals) :
              j.user_id \notin world.target_user_ids \/ j.created_on.day > EndDate
                \/ j.created_on.day < StartDate

\* C2: an issue with no passing journal and updated_on within the range gets
\* exactly one "(Issue Updated)" line, in the bucket of its project and of the
\* assignee, else the author, else "Unknown"; any other issue gets none
UpdateLinesOf(id) == {kp \in LinesOfKind("updated") : grouped_data[kp[1]].redmine[kp[2]].issue = id}

C2_SyntheticLine ==
  Grouped =>
    \A i \in Range(state.issues) :
      LET ls == UpdateLinesOf(i.id)
          U == IF i.assigned_to_name # "Unknown" THEN i.assigned_to_name
               ELSE IF i.author_name # "Unknown" THEN i.author_name ELSE "Unknown"
      IN IF i.journals = <<>> /\ i.updated_on.day >= StartDate /\ i.updated_on.day <= EndDate
           THEN Cardinality(ls) = 1 /\ \A kp \in ls : kp[1] = <<i.project_name, U>>
           ELSE ls = {}

\* a synthetic line attributed to the author because the assignee is unknown,
\* next to an issue that has a passing journal and so gets none
C2_Witness ==
  /\ Grouped
  /\ \E i \in Range(state.issues) :
       /\ i.assigned_to_name = "Unknown" /\ i.author_name # "Unknown"
       /\ \E kp \in UpdateLinesOf(i.id) : kp[1][2] = i.author_name
  /\ \E i \in Range(state.issues) :
       /\ i.journals # <<>> /\ i.updated_on.day >= StartDate /\ i.updated_on.day <= EndDate
       /\ UpdateLinesOf(i.id) = {}

Done == stage = "DONE"
Body == report.body
ChunkTasks == {i \in 1..Len(ordered_chunks) : ~IsSummaryTask(ordered_chunks, i)}
SummaryTasks == {i \in 1..Len(ordered_chunks) : IsSummaryTask(ordered_chunks, i)}
ContainsSeq(b, q) == \E k \in 0..(Len(b) - Len(q)) : SubSeq(b, k + 1, k + Len(q)) = q

\* C3: the persisted report contains no IMG_PLACEHOLDER_<n> token, whatever
\* the LLM returned
C3_NoPlaceholderInReport ==
  Done => \A k \in 1..Len(Body) : Body[k].t # "PH"

\* C4: in the assembled document the summary of a project precedes all per-user
\* sections of that project, the per-user sections of a project are in lexical
\* order of user name and the projects are in lexical order of project name
IsSummaryAt(k) == Body[k].t \in {"LLM_SUMMARY", "SUMMARY_ERR"}
IsChunkAt(k) == Body[k].t = "H3"

C4_SectionOrder ==
  Done =>
    /\ \A i, j \in 1..Len(Body) :
         IsSummaryAt(i) /\ IsChunkAt(j) /\ Body[i].a = Body[j].a => i < j
    /\ \A i, j \in 1..Len(Body) :
         i < j /\ IsChunkAt(i) /\ IsChunkAt(j) /\ Body[i].a = Body[j].a => ~StrLess(Body[j].b, Body[i].b)
    /\ \A i, j \in 1..Len(Body) :
         i < j /\ (IsSummaryAt(i) \/ IsChunkAt(i)) /\ (IsSummaryAt(j) \/ IsChunkAt(j))
           => ~StrLess(Body[j].a, Body[i].a)

\* C5: the number of chunk tasks holding a permit, and so of chunk LLM calls
\* in flight, never exceeds the configured capacity
ChunkCallsInFlight == {i \in ChunkTasks : ordered_chunks[i].pc \in {"redmine", "gitlab"}}

C5_ChunkCallsBounded ==
  Cardinality(ChunkCallsInFlight) <= ConcurrencyLimit(world)

\* the capacity is reached while further chunk tasks wait for a permit
C5_Witness ==
  /\ Cardinality(ChunkTasks) = 5
  /\ Cardinality(ChunkCallsInFlight) = ConcurrencyLimit(world)
  /\ Len(semaphore.waiters) >= 2
  /\ \E i \in ChunkTasks : ordered_chunks[i].pc = "done"

\* C6: chunk-summary and project-summary calls in flight together never
\* exceed the capacity of the semaphore
C6_AllCallsBounded ==
  Cardinality(InFlight(ordered_chunks)) <= ConcurrencyLimit(world)

\* C7 as stated: the section of a bucket whose LLM call raised carries the
\* message "(AI Analysis Failed: ...)"
C7_FailedMessage ==
  Done =>
    \A i \in ChunkTasks :
      ordered_chunks[i].raised # {} =>
        /\ ContainsSeq(Body, ordered_chunks[i].res)
        /\ \E a \in Range(ordered_chunks[i].res) : a.t = "ERR" /\ a.a = "AI Analysis Failed"

\* C7 amended: the run completes with a "### P - U" section for every bucket;
\* a raised call shows in that section as "(Redmine AI Error: ...)" or
\* "(GitLab AI Error: ...)" in place of the call's text, and the sections of
\* the calls that did not raise carry the LLM text and no error message
SourceAtoms(i, n, msg) ==
  LET t == ordered_chunks[i]
      src == IF n = 1 THEN "redmine" ELSE "gitlab"
      lines == IF n = 1 THEN grouped_data[<<t.p, t.u>>].redmine ELSE grouped_data[<<t.p, t.u>>].gitlab
      has_llm == Atom("LLM", t.p, t.u, n) \in Range(t.res)
      has_err == Atom("ERR", msg, "", 0) \in Range(t.res)
  IN IF lines = <<>> THEN ~has_llm /\ ~has_err
     ELSE IF src \in t.raised THEN has_err /\ ~has_llm
     ELSE has_llm /\ ~has_err

C7_FailureInline ==
  /\ (\E i \in ChunkTasks : ordered_chunks[i].raised # {}) => stage \in {"ANALYZING", "DONE"}
  /\ Done =>
    \A i \in ChunkTasks :
      /\ ordered_chunks[i].res # <<>>
      /\ ordered_chunks[i].res[1] = Atom("H3", ordered_chunks[i].p, ordered_chunks[i].u, 0)
      /\ ContainsSeq(Body, ordered_chunks[i].res)
      /\ SourceAtoms(i, 1, "Redmine AI Error")
      /\ SourceAtoms(i, 2, "GitLab AI Error")

\* a finished run in which the call of one bucket raised and another did not
C7_Witness ==
  /\ Done
  /\ \E i, j \in ChunkTasks :
       /\ ordered_chunks[i].raised # {} /\ ordered_chunks[j].raised = {}
       /\ ContainsSeq(Body, ordered_chunks[j].res)

\* C8: the fetch stage never raises, whichever external call fails
C8_FetchNeverRaises ==
  stage # "RAISED"

\* C9: with an empty target project or user set generate_summary returns the
\* "Error" report, without any external call and without entering the workflow
C9_FailFast ==
  (world.target_project_ids = {} \/ world.target_user_ids = {}) /\ stage # "IDLE" =>
    /\ stage = "ERROR"
    /\ report.title = "Error" /\ report.body = <<Atom("ERROR_BODY", "", "", 0)>>
    /\ calls_made = {} /\ state = NoState /\ ordered_chunks = <<>>

\* the fail-fast return with exactly one of the two sets empty
C9_Witness ==
  /\ stage = "ERROR"
  /\ (world.target_project_ids = {}) # (world.target_user_ids = {})

\* C10: when the grand-summary call raises, the report is persisted with the
\* fallback sentence and with every project and user section as produced
C10_GrandFallback ==
  grand = "failed" =>
    /\ Done /\ report.saved
    /\ Len(Body) >= 2 /\ Body[2] = Atom("GRAND_FALLBACK", "", "", 0)
    /\ \A k \in 1..Len(Body) : Body[k].t # "GRAND"
    /\ \A i \in 1..Len(ordered_chunks) : ContainsSeq(Body, ordered_chunks[i].res)

\* the grand summary failed in a run that produced project and user sections
C10_Witness ==
  /\ grand = "failed" /\ Done
  /\ ChunkTasks # {} /\ SummaryTasks # {}

\* C11: a run with non-empty target sets moves through FETCHING, ANALYZING,
\* DONE in this order, entering each at most once: ANALYZING is entered only
\* from FETCHING (whose result it receives), DONE only from ANALYZING, there
\* is no step back to an earlier stage and no second pass of a node
StageEdges ==
  {<<"IDLE", "FETCHING">>, <<"IDLE", "ERROR">>, <<"FETCHING", "ANALYZING">>, <<"FETCHING", "RAISED">>,
   <<"ANALYZING", "DONE">>}
NodeEdges == {<<"group", "gather">>, <<"gather", "grand">>, <<"grand", "end">>}

C11_StageStep ==
  /\ stage' # stage => <<stage, stage'>> \in StageEdges
  /\ state' # state => stage = "FETCHING" /\ stage' = "ANALYZING"
  /\ analyze_pc' # analyze_pc => stage = "ANALYZING" /\ <<analyze_pc, analyze_pc'>> \in NodeEdges
  /\ stage = "FETCHING" => analyze_pc = "group" /\ ordered_chunks = <<>>
  /\ stage' = "DONE" => analyze_pc' = "end" /\ "redmine" \in calls_made' /\ report'.saved
  /\ stage \in {"DONE", "ERROR", "RAISED"} => stage' = stage

C12_NoStarvation ==
  semaphore.waiters # <<>> => semaphore.value > 0 \/ ChunkCallsInFlight # {}

\* C13: after any sequence of get_img_placeholder calls, two calls returned
\* the same key exactly when they were given the same URL, every returned key
\* still maps to the URL it was issued for, and the table holds no URL twice
C13_PlaceholderBijection ==
  /\ \A i, j \in 1..Len(ph_calls) :
       (ph_calls[i].url = ph_calls[j].url) <=> (ph_calls[i].key = ph_calls[j].key)
  /\ \A i \in 1..Len(ph_calls) :
       /\ ph_calls[i].key + 1 \in 1..Len(img_placeholder_map)
       /\ img_placeholder_map[ph_calls[i].key + 1] = ph_calls[i].url
  /\ \A h, k \in 1..Len(img_placeholder_map) :
       img_placeholder_map[h] = img_placeholder_map[k] => h = k
  /\ Range(img_placeholder_map) = {ph_calls[i].url : i \in 1..Len(ph_calls)}

\* a URL asked for again after another URL had received a key in between
C13_Witness ==
  \E i, j, k \in 1..Len(ph_calls) :
    /\ i < j /\ j < k
    /\ ph_calls[i].url = ph_calls[k].url /\ ph_calls[i].key = ph_calls[k].key
    /\ ph_calls[j].url # ph_calls[i].url /\ ph_calls[j].key # ph_calls[i].key

\* C14: for every issue of a target project that the issue search returned
\* and every journal on it written by a target user on a day within
\* [start_date, end_date], the bucket of (project, journal author) holds a
\* line of that journal
C14_PassingJournalHasLine ==
  Grouped /\ world.failing = {} =>
    \A iss \in Range(world.issues) :
      iss.pid \in world.target_project_ids =>
        \A j \in Range(iss.journals) :
          j.user_id \in world.target_user_ids /\ StartDate <= j.created_on.day /\ j.created_on.day <= EndDate
            => \E kp \in LinesOfKind("journal") :
                 /\ kp[1] = <<ProjectName(iss.pid), j.user>>
                 /\ grouped_data[kp[1]].redmine[kp[2]].issue = iss.id
                 /\ grouped_data[kp[1]].redmine[kp[2]].day = j.created_on.day
                 /\ TextOf(grouped_data[kp[1]].redmine[kp[2]].note) = TextOf(j.notes)

\* C15: the bucket line of a journal that passed the filter carries, at the
\* place of every image reference naming an attachment of the issue, the
\* placeholder key of the attachment's URL
LinesOfJournal(i, j) ==
  {kp \in LinesOfKind("journal") :
     /\ kp[1] = <<i.project_name, j.user>>
     /\ grouped_data[kp[1]].redmine[kp[2]].issue = i.id
     /\ grouped_data[kp[1]].redmine[kp[2]].day = DayOf(j.created_on)
     /\ TextOf(grouped_data[kp[1]].redmine[kp[2]].note) = TextOf(j.notes)}

C15_AttachmentRefReplaced ==
  Grouped =>
    \A i \in Range(state.issues) : \A j \in Range(i.journals) : \A k \in 1..Len(j.notes) :
      LET atts == UNION {w.attachments : w \in {x \in Range(world.issues) : x.id = i.id}}
      IN j.notes[k].t = "REF" /\ j.notes[k].a \in atts =>
           /\ LinesOfJournal(i, j) # {}
           /\ \A kp \in LinesOfJournal(i, j) :
                LET a == grouped_data[kp[1]].redmine[kp[2]].note[k]
                IN /\ a.t = "PH" /\ a.n + 1 \in 1..Len(img_placeholder_map)
                   /\ img_placeholder_map[a.n + 1] = ContentUrl(j.notes[k].a)

\* C16: the images the resolver emits for the Textile references of an issue
\* are the mapped URLs of the references naming an attachment and the
\* references that are absolute URLs; a reference that is neither yields no image
AbsoluteUrls == {ContentUrl(r) : r \in AllRefs}

C16_TextileResolution ==
  stage \in {"ANALYZING", "DONE"} =>
    \A i \in Range(state.issues) :
      LET atts == UNION {w.attachments : w \in {x \in Range(world.issues) : x.id = i.id}}
          refs == UNION {Range(FindImages(w.description)) : w \in {x \in Range(world.issues) : x.id = i.id}}
                    \cup UNION {Range(FindImages(j.notes)) : j \in Range(i.journals)}
      IN Range(i.images) = {ContentUrl(r) : r \in refs \cap atts} \cup (refs \cap AbsoluteUrls)

\* C17: for a Markdown or HTML reference that is not an absolute URL, the
\* extractor emits the mapped URL when the reference names an attachment, else
\* base + "/" + the reference without its leading slashes when a base URL is
\* given, else the reference itself
C17_MarkdownResolution ==
  extraction.pc = "returned" =>
    \A r \in Range(extraction.issue.description) :
      r.t \in {"MD", "HTML"} /\ ~StartsWithHttp(r.tok) /\ ~(r.t = "MD" /\ r.tok.mid = " ") =>
        LET expected == IF r.tok \in extraction.issue.attachments THEN AttachmentUrl(r.tok)
                        ELSE IF extraction.redmine_url # ""
                          THEN JoinUrl(extraction.redmine_url, LStripSlash(r.tok))
                        ELSE r.tok
        IN extraction.images # <<>> /\ extraction.images[1].url = expected

\* C18: after a successful POST /timer/start for an issue, GET /timer/current
\* reports the session of that issue with is_running true, whatever the timer
\* state was before; and while no session was ever started it returns null
C18_StartThenCurrent ==
  /\ timer_response.op = "start" /\ timer_response.code = 200 =>
       \A body \in get_current_timer(timer_sessions, timer_spans, clock) :
         /\ body # None
         /\ body[1].issue_id = timer_sessions[timer_response.target].redmine_issue_id
         /\ body[1].is_running
  /\ timer_sessions = <<>> => get_current_timer(timer_sessions, timer_spans, clock) = {None}

\* C19: POST /timer/stop on an active timer answers with the session it has
\* just stopped: that session's issue_id, is_running false, duration >= 0
C19_StopReturnsStopped ==
  timer_response.op = "stop" /\ timer_response.target # 0 =>
    /\ timer_response.body # None
    /\ timer_response.body[1].id = timer_response.target
    /\ timer_response.body[1].issue_id = timer_sessions[timer_response.target].redmine_issue_id
    /\ ~timer_response.body[1].is_running
    /\ timer_response.body[1].duration >= 0

\* C20: for n >= 1 calculate_due_date(start, n) returns the earliest date
\* d >= start with n working days in [start, d]: d is a working day and
\* get_working_days_between(start, d) = n; for n <= 0 it returns start
C20_DueDate ==
  workday.pc = "returned" =>
    LET cal == workday.cal
        start == workday.start_date
        n == workday.working_days
        d == workday.due
    IN IF n <= 0 THEN d = start
       ELSE /\ d >= start
            /\ is_working_day(cal, d)
            /\ get_working_days_between(cal, start, d) = n
            /\ \A e \in start..(d - 1) : get_working_days_between(cal, start, e) < n

\* three working days from a Friday, across an excluded weekend and a holiday
C20_Witness ==
  /\ workday.pc = "returned"
  /\ workday.working_days = 3 /\ weekday(workday.start_date) = 4
  /\ workday.cal.exclude_saturday /\ workday.cal.exclude_sunday
  /\ workday.cal.holidays = {workday.start_date + 3}
  /\ workday.due = workday.start_date + 5

\* C21: when the underlying Redmine time-entry creation fails,
\* RedmineService.create_time_entry returns False and does not raise
C21_CreateFailureReturnsFalse ==
  \A k \in 1..Len(redmine_calls) :
    redmine_calls[k].api = "fails" =>
      ~redmine_calls[k].raised /\ redmine_calls[k].value = "False"

\* C27: after any sequence of start, pause and stop requests at most one
\* session is running, every running session has exactly one span without
\* end_time, and paused and stopped sessions have none
C27_OneRunningOneOpenSpan ==
  /\ Cardinality(WithStatus(timer_sessions, {"running"})) <= 1
  /\ \A i \in 1..Len(timer_sessions) :
       Cardinality(OpenSpans(timer_spans, i)) = IF timer_sessions[i].status = "running" THEN 1 ELSE 0

\* a session running again after it was paused for another issue, with a
\* paused and a stopped session beside it
C27_Witness ==
  /\ \E i \in WithStatus(timer_sessions, {"running"}) :
       Cardinality({k \in 1..Len(timer_spans) : timer_spans[k].session_id = i}) >= 2
  /\ WithStatus(timer_sessions, {"paused"}) # {}
  /\ WithStatus(timer_sessions, {"stopped"}) # {}

\* C28: when a session is running, POST /timer/stop stops that session
\* rather than a paused one: the session the request stopped is not one that
\* was paused while another was running, and no session has status "running"
\* once stop has answered
C28_StopsRunningSession ==
  timer_response.op = "stop" => WithStatus(timer_sessions, {"running"}) = {}

\* C29: a timer session yields at most one Redmine time entry: submit never
\* creates an entry for a session already marked is_synced, and is_synced is
\* true only for a session whose create_time_entry call succeeded
EntriesOf(i) == {k \in 1..Len(redmine_calls) : redmine_calls[k].session = i /\ ~redmine_calls[k].raised}

C29_OneEntryPerSession ==
  \A i \in 1..Len(timer_sessions) :
    /\ Cardinality(EntriesOf(i)) <= 1
    /\ timer_sessions[i].is_synced => EntriesOf(i) # {}

\* C22: restoration replaces every occurrence of a placeholder key by the
\* local cache reference of its URL when the download succeeds and by the URL
\* itself when it fails, and never by the URL of another placeholder, for any
\* number of placeholders (also ten or more)
C22_RestoreEachKey ==
  restore.pc = "returned" =>
    restore.final_res =
      [i \in 1..Len(restore.text) |->
         IF restore.text[i].t # "PH" THEN restore.text[i]
         ELSE LET url == restore.map[restore.text[i].n + 1]
              IN IF url \in restore.downloaded THEN Atom("LOCAL", url, "", 0) ELSE Atom("URL", url, "", 0)]

\* C23: given the same LLM result for each task, the assembled body is the
\* same for every completion order of the concurrent tasks: it is the sorted
\* concatenation of each task's own result, whatever order they finished in
C23_BodyOfResults ==
  gather.pc = "assembled" =>
    gather.body = CombinedChunkText([i \in 1..Len(gather.tasks) |->
                     [gather.tasks[i] EXCEPT !.res = TaskReturn(gather.tasks, i, gather.llm[i])]])

\* an assembled run whose tasks all returned text and completed in the
\* reverse of the order in which they were gathered
C23_Witness ==
  /\ gather.pc = "assembled"
  /\ Len(gather.tasks) >= 4
  /\ \A i \in 1..Len(gather.tasks) : gather.llm[i]
  /\ \A k \in 1..Len(gather.finished) : gather.finished[k] = Len(gather.tasks) + 1 - k

\* C24: with the error-dump setting on, a failed LLM call of a chunk or of a
\* project summary leaves a debug file for that task, and the run goes on to
\* DONE whether or not the dump could be written
C24_ErrorDumpPersisted ==
  /\ debug_dump.enabled =>
       \A i \in 1..Len(ordered_chunks) :
         ordered_chunks[i].raised # {} =>
           [p |-> ordered_chunks[i].p, u |-> ordered_chunks[i].u] \in debug_dump.files
  /\ grand = "failed" => stage = "DONE" /\ report.saved

\* C25: the bucket map, the registered-image table and the placeholder table
\* change only in the synchronous grouping step; from the start of the first
\* task to the end of the last one the concurrent tasks leave them unchanged
C25_TablesStep ==
  /\ <<grouped_data, group_order, issue_images_data, img_placeholder_map>>' #
       <<grouped_data, group_order, issue_images_data, img_placeholder_map>>
       => stage = "ANALYZING" /\ analyze_pc = "group" /\ analyze_pc' = "gather"
  /\ analyze_pc = "gather" =>
       UNCHANGED <<grouped_data, group_order, issue_images_data, img_placeholder_map>>

C25_TablesFrozen == [][C25_TablesStep]_vars

\* the gather is under way over non-empty tables: one task has finished and
\* another has its LLM call in flight
C25_Witness ==
  /\ analyze_pc = "gather"
  /\ img_placeholder_map # <<>> /\ DOMAIN issue_images_data # {}
  /\ \E i, j \in 1..Len(ordered_chunks) :
       /\ ordered_chunks[i].pc = "done" /\ ~IsSummaryTask(ordered_chunks, i)
       /\ j \in InFlight(ordered_chunks)

\* C26: an image is registered for the Attachments section of a bucket
\* (project, user) under issue I only if it was found in a journal of I
\* written by that user; an image found only in the description of I is
\* registered only in the bucket I falls back to (assignee, else author)
ImagesOfNote(issue_id, notes) ==
  {resolve_url(r, world.issues[k].attachments) :
     r \in Range(FindImages(notes)), k \in {h \in 1..Len(world.issues) : world.issues[h].id = issue_id}}

DescriptionOf(issue_id) ==
  Flatten([k \in 1..Len(world.issues) |->
             IF world.issues[k].id = issue_id THEN world.issues[k].description ELSE <<>>])

C26_ImageFromOwnJournal ==
  Grouped =>
    \A key \in DOMAIN issue_images_data :
      \A e \in 1..Len(issue_images_data[key]) :
        \A h \in 1..Len(issue_images_data[key][e].placeholders) :
          LET url == img_placeholder_map[issue_images_data[key][e].placeholders[h] + 1]
          IN \E k \in 1..Len(state.issues) :
               LET i == state.issues[k]
               IN /\ i.id = issue_images_data[key][e].issue
                  /\ i.project_name = key[1]
                  /\ \/ \E n \in 1..Len(i.journals) :
                          i.journals[n].user = key[2] /\ url \in ImagesOfNote(i.id, i.journals[n].notes)
                     \/ key[2] = FallbackUser(i) /\ url \in ImagesOfNote(i.id, DescriptionOf(i.id))

\* C30: get_report, update_report_content, delete_report and chat_with_report
\* called by user A read or change only reports owned by A; with the id of a
\* report of another user they answer not-found and leave that report (body,
\* title, conversation history, existence) as it was
C30_Step ==
  reports_db'.calls # reports_db.calls =>
    LET call == reports_db'.last
        rows == reports_db.rows
    IN /\ \A k \in 1..Len(rows) : rows[k].owner_id # call.user => reports_db'.rows[k] = rows[k]
       /\ Len(reports_db'.rows) = Len(rows)
       /\ call.found => call.id \in 1..Len(rows) /\ rows[call.id].exists /\ rows[call.id].owner_id = call.user
       /\ ~call.found => reports_db'.rows = rows

C30_OwnerIsolation == [][C30_Step]_vars

\* a user has changed their own report and was then refused, by each of the
\* modifying calls in turn, on the existing report of the other user
C30_Witness ==
  /\ reports_db.last.op \in {"update", "delete", "chat"}
  /\ ~reports_db.last.found
  /\ reports_db.last.id \in 1..Len(reports_db.rows)
  /\ reports_db.rows[reports_db.last.id].exists
  /\ reports_db.rows[reports_db.last.id].owner_id # reports_db.last.user
  /\ reports_db.rows[reports_db.last.id] = ReportRow(reports_db.rows[reports_db.last.id].owner_id)
  /\ \E k \in 1..Len(reports_db.rows) :
       reports_db.rows[k].owner_id = reports_db.last.user /\ reports_db.rows[k].summary_markdown = "refined"

====
